---- MODULE Spec2Model ----
(***************************************************************************)
(* Model of the lexical front end of gotex: the position model            *)
(* (token.FileSet / token.File), its locking discipline, the scanner, the *)
(* walk over the syntax tree and the parser.                              *)
(***************************************************************************)
EXTENDS Integers, Sequences, FiniteSets, TLC

VARIABLES
    fset,   \* the token.FileSet: [base, files]; a File is [name, base, size, lines]
    last,   \* the most recent call on the position model and what it returned
    thr,    \* the threads calling into the position model, each with its place in a call
    smu,    \* FileSet.mutex, a sync.RWMutex: [writer, readers]
    fmu,    \* File.mutex of each File, a sync.Mutex: the thread holding it, 0 if free
    scn,    \* the Scanner: [src, handler, offset, rdOffset, ch]; its File is File 1 of fset
    errs,   \* the calls the Scanner made to its error handler: [pos, msg]
    toks,   \* the (pos, tok, lit) triples Scan returned so far
    wlk,    \* an ast.Walk in progress: [root, stack, visits]
    prs     \* the parser: [mode, tok, lit, pos, imports, result]

vars == <<fset, last, thr, smu, fmu, scn, errs, toks, wlk, prs>>

\* what the sequential position model leaves alone
notPos == <<thr, smu, fmu, scn, errs, toks, wlk, prs>>
\* what the threaded position model leaves alone
notConc == <<last, scn, errs, toks, wlk, prs>>
\* what the scanner leaves alone
notScan == <<last, thr, smu, fmu, wlk, prs>>
\* what a walk leaves alone
notWalk == <<fset, last, thr, smu, fmu, scn, errs, toks, prs>>
\* what the parser leaves alone
notParse == <<last, thr, smu, fmu, errs, toks, wlk>>

-----------------------------------------------------------------------------
(* Bounds of the model *)

\* the largest value of the machine integer of the model (Go's int, scaled down)
MaxInt == 6
\* AddFile is not called once the set holds this many Files
MaxFiles == 3

\* the number of threads of the threaded position model
NumThreads == 2
\* the longest source scanned, in bytes
MaxSrcLen == 4
\* Scan is called this many times more than the source has bytes
ExtraScans == 2
\* the longest source scanned where the eventual EOF is checked under fairness
MaxLiveLen == 3

MinInt == -MaxInt - 1

\* two's-complement wrap-around of Go's int
Wrap(x) == ((x - MinInt) % (2 * (MaxInt + 1))) + MinInt

Ints == MinInt..MaxInt

FileNames == {"a.tex", "b.tex"}

\* the inputs the calls are tried with
Sizes == {-1, 0, 1, 3, MaxInt}
BaseDeltas == {-1, 0, 1}
Offsets == -1..3
Coords == -1..MaxInt

-----------------------------------------------------------------------------
(* token.Position, token.Pos, token.File *)

NoPos == 0

\* the zero value of token.Position
ZeroPosition == [Filename |-> "", Offset |-> 0, Line |-> 0, Column |-> 0]

\* a *File is the index of the File in the set's list; nil is 0
NilFile == 0

LineCount(f) == Len(f.lines)

\* AddLine comparing with <= : a repeated offset is appended again
AddLine_AcceptsEqual(f, offset) ==
    LET i == Len(f.lines)
    IN  IF (i = 0 \/ f.lines[i] <= offset) /\ offset < f.size
        THEN [f EXCEPT !.lines = Append(f.lines, offset)]
        ELSE f

\* AddLine refusing the offset of the last byte of the file
AddLine_ExcludesLastByte(f, offset) ==
    LET i == Len(f.lines)
    IN  IF (i = 0 \/ f.lines[i] < offset) /\ offset < f.size - 1
        THEN [f EXCEPT !.lines = Append(f.lines, offset)]
        ELSE f

\* File.AddLine: the File after the call
AddLine(f, offset) ==
    LET i == Len(f.lines)
    IN  IF (i = 0 \/ f.lines[i] < offset) /\ offset < f.size
        THEN [f EXCEPT !.lines = Append(f.lines, offset)]
        ELSE f

\* File.line: the index of the first table entry greater than offset, 0 if none
RECURSIVE lineLoop(_, _, _)
lineLoop(lines, offset, i) ==
    IF i >= Len(lines) THEN 0
    ELSE IF offset < lines[i + 1] THEN i
    ELSE lineLoop(lines, offset, i + 1)

line(f, offset) == lineLoop(f.lines, offset, 0)

column(offset, ln) == offset - ln

position(f, p) ==
    LET o == p - f.base
        l == line(f, o)
        c == column(o, l)
    IN  [Filename |-> f.name, Offset |-> o, Line |-> l, Column |-> c]

\* File.Position taking the end-of-file coordinate base+size for one of the File
FilePosition_EndIncluded(f, p) ==
    IF p # NoPos /\ p >= f.base /\ p <= f.base + f.size
    THEN position(f, p)
    ELSE ZeroPosition

\* File.Position
FilePosition(f, p) ==
    IF p # NoPos /\ p >= f.base /\ p < f.base + f.size
    THEN position(f, p)
    ELSE ZeroPosition

-----------------------------------------------------------------------------
(* token.FileSet *)

NewFileSet == [base |-> 1, files |-> <<>>]

FileSetBase(s) == s.base

\* the three ways AddFile can be got wrong: no check of base against the cursor,
\* a cursor that forgets the end-of-file coordinate, no overflow check
AddFile_Variant(s, filename, base, size, checkBase, eofSlot, checkOverflow) ==
    IF checkBase /\ base < s.base
    THEN [panicked |-> TRUE, s |-> s, f |-> 0]
    ELSE IF size < 0
    THEN [panicked |-> TRUE, s |-> s, f |-> 0]
    ELSE LET nb == Wrap(base + size + eofSlot)
             f  == [name |-> filename, base |-> base, size |-> size, lines |-> <<0>>]
         IN  IF checkOverflow /\ nb < 0
             THEN [panicked |-> TRUE, s |-> s, f |-> 0]
             ELSE [panicked |-> FALSE,
                   s |-> [base |-> nb, files |-> Append(s.files, f)],
                   f |-> Len(s.files) + 1]

AddFile_NoBaseCheck(s, filename, base, size) ==
    AddFile_Variant(s, filename, base, size, FALSE, 1, TRUE)

AddFile_NoEofSlot(s, filename, base, size) ==
    AddFile_Variant(s, filename, base, size, TRUE, 0, TRUE)

AddFile_NoOverflowCheck(s, filename, base, size) ==
    AddFile_Variant(s, filename, base, size, TRUE, 1, FALSE)

\* FileSet.AddFile: [panicked, s (the set after the call), f (the *File returned)]
AddFile(s, filename, base, size) ==
    IF base < s.base
    THEN [panicked |-> TRUE, s |-> s, f |-> NilFile]
    ELSE IF size < 0
    THEN [panicked |-> TRUE, s |-> s, f |-> NilFile]
    ELSE LET nb == Wrap(base + size + 1)
             f  == [name |-> filename, base |-> base, size |-> size, lines |-> <<0>>]
         IN  IF nb < 0
             THEN [panicked |-> TRUE, s |-> s, f |-> NilFile]
             ELSE [panicked |-> FALSE,
                   s |-> [base |-> nb, files |-> Append(s.files, f)],
                   f |-> Len(s.files) + 1]

\* slices.BinarySearchFunc over the bases: the 0-based insertion index
RECURSIVE BinarySearch(_, _, _, _)
BinarySearch(a, x, i, j) ==
    IF i < j
    THEN LET h == (i + j) \div 2
         IN  IF a[h + 1].base < x
             THEN BinarySearch(a, x, h + 1, j)
             ELSE BinarySearch(a, x, i, h)
    ELSE i

\* searchFiles: the 0-based index of the File whose base is <= x, -1 if none
searchFiles(a, x) ==
    LET i     == BinarySearch(a, x, 0, Len(a))
        found == i < Len(a) /\ a[i + 1].base = x
    IN  IF found THEN i ELSE i - 1

\* file without the out-of-bounds check
file_NoBoundsCheck(s, p) ==
    LET i == searchFiles(s.files, p)
    IN  IF i >= 0 THEN i + 1 ELSE 0

\* file with the end-of-file coordinate left out of the range
file_EndExcluded(s, p) ==
    LET i == searchFiles(s.files, p)
    IN  IF i >= 0 /\ p < s.files[i + 1].base + s.files[i + 1].size
        THEN i + 1
        ELSE 0

\* FileSet.file
file(s, p) ==
    LET i == searchFiles(s.files, p)
    IN  IF i >= 0 /\ p <= s.files[i + 1].base + s.files[i + 1].size
        THEN i + 1
        ELSE NilFile

\* FileSet.File
FileSetFile(s, p) == IF p # NoPos THEN file(s, p) ELSE NilFile

\* FileSet.Position
FileSetPosition(s, p) ==
    IF p # NoPos /\ file(s, p) # NilFile
    THEN position(s.files[file(s, p)], p)
    ELSE ZeroPosition

-----------------------------------------------------------------------------
(* Token catalog: the iota order of the token constants and the tokens table.
   A string is the sequence of its bytes. *)

tokens ==
    <<
        [name |-> "ILLEGAL", str |-> <<73, 76, 76, 69, 71, 65, 76>>],
        [name |-> "EOF", str |-> <<69, 79, 70>>],
        [name |-> "COMMENT", str |-> <<67, 79, 77, 77, 69, 78, 84>>],
        [name |-> "WORD", str |-> <<87, 79, 82, 68>>],
        [name |-> "NUMBER", str |-> <<78, 85, 77, 66, 69, 82>>],
        [name |-> "WHITESPACE", str |-> <<87, 72, 73, 84, 69, 83, 80, 65, 67, 69>>],
        [name |-> "NEWLINE", str |-> <<78, 69, 87, 76, 73, 78, 69>>],
        [name |-> "COMMAND", str |-> <<67, 79, 77, 77, 65, 78, 68>>],
        [name |-> "keywords_beg", str |-> <<>>],
        [name |-> "IMPORT", str |-> <<105, 109, 112, 111, 114, 116>>],
        [name |-> "ENV", str |-> <<98, 101, 103, 105, 110>>],
        [name |-> "ENVEND", str |-> <<101, 110, 100>>],
        [name |-> "keywords_end", str |-> <<>>],
        [name |-> "symbols_beg", str |-> <<>>],
        [name |-> "LBRACE", str |-> <<123>>],
        [name |-> "RBRACE", str |-> <<125>>],
        [name |-> "LBRACK", str |-> <<91>>],
        [name |-> "RBRACK", str |-> <<93>>],
        [name |-> "PERIOD", str |-> <<46>>],
        [name |-> "COLON", str |-> <<58>>],
        [name |-> "COMMA", str |-> <<44>>],
        [name |-> "SEMICOLON", str |-> <<59>>],
        [name |-> "EQUALS", str |-> <<61>>],
        [name |-> "LESS", str |-> <<60>>],
        [name |-> "GREATER", str |-> <<62>>],
        [name |-> "BACKSLASH", str |-> <<92>>],
        [name |-> "SLASH", str |-> <<47>>],
        [name |-> "ASTERISK", str |-> <<42>>],
        [name |-> "BANG", str |-> <<33>>],
        [name |-> "AMPERSAND", str |-> <<38>>],
        [name |-> "DOLLAR", str |-> <<36>>],
        [name |-> "PERCENT", str |-> <<37>>],
        [name |-> "HASH", str |-> <<35>>],
        [name |-> "CARET", str |-> <<94>>],
        [name |-> "DASH", str |-> <<45>>],
        [name |-> "UNDERSCORE", str |-> <<95>>],
        [name |-> "TILDE", str |-> <<126>>],
        [name |-> "PIPE", str |-> <<124>>],
        [name |-> "AT", str |-> <<64>>],
        [name |-> "symbols_end", str |-> <<>>]
    >>

\* the value of the token constant with this name (iota counts from 0)
Tok(name) == (CHOOSE i \in 1..Len(tokens) : tokens[i].name = name) - 1

ILLEGAL == Tok("ILLEGAL")
EOF == Tok("EOF")
COMMENT == Tok("COMMENT")
WORD == Tok("WORD")
NUMBER == Tok("NUMBER")
NEWLINE == Tok("NEWLINE")
COMMAND == Tok("COMMAND")
keywords_beg == Tok("keywords_beg")
keywords_end == Tok("keywords_end")
symbols_beg == Tok("symbols_beg")
symbols_end == Tok("symbols_end")

\* the keys of the keywords and symbols maps filled by init()
KeywordToks == (keywords_beg + 1)..(keywords_end - 1)
SymbolToks == (symbols_beg + 1)..(symbols_end - 1)

TokenString(tok) == tokens[tok + 1].str

-----------------------------------------------------------------------------
(* unicode/utf8 as far as the scanner uses it *)

RuneError == 65533
RuneSelf == 128

IsCont(b) == 128 <= b /\ b <= 191

\* utf8.DecodeRune: the first rune of the bytes p and its width
DecodeRune(p) ==
    LET n  == Len(p)
        b0 == p[1]
        bad == [r |-> RuneError, w |-> 1]
    IN  IF n = 0 THEN [r |-> RuneError, w |-> 0]
        ELSE IF b0 < 128 THEN [r |-> b0, w |-> 1]
        ELSE IF 194 <= b0 /\ b0 <= 223
        THEN IF n >= 2 /\ IsCont(p[2])
             THEN [r |-> (b0 % 32) * 64 + (p[2] % 64), w |-> 2]
             ELSE bad
        ELSE IF 224 <= b0 /\ b0 <= 239
        THEN IF /\ n >= 3
                /\ (IF b0 = 224 THEN 160 ELSE 128) <= p[2]
                /\ p[2] <= (IF b0 = 237 THEN 159 ELSE 191)
                /\ IsCont(p[3])
             THEN [r |-> (b0 % 16) * 4096 + (p[2] % 64) * 64 + (p[3] % 64), w |-> 3]
             ELSE bad
        ELSE IF 240 <= b0 /\ b0 <= 244
        THEN IF /\ n >= 4
                /\ (IF b0 = 240 THEN 144 ELSE 128) <= p[2]
                /\ p[2] <= (IF b0 = 244 THEN 143 ELSE 191)
                /\ IsCont(p[3]) /\ IsCont(p[4])
             THEN [r |-> (b0 % 8) * 262144 + (p[2] % 64) * 4096 + (p[3] % 64) * 64
                          + (p[4] % 64), w |-> 4]
             ELSE bad
        ELSE bad

\* string(rune) and Builder.WriteRune: the UTF-8 bytes of r, of U+FFFD if r is no rune
EncodeRune(r) ==
    IF r < 0 \/ r > 1114111 \/ (55296 <= r /\ r <= 57343)
    THEN <<239, 191, 189>>
    ELSE IF r < 128 THEN <<r>>
    ELSE IF r < 2048 THEN <<192 + (r \div 64), 128 + (r % 64)>>
    ELSE IF r < 65536
    THEN <<224 + (r \div 4096), 128 + ((r \div 64) % 64), 128 + (r % 64)>>
    ELSE <<240 + (r \div 262144), 128 + ((r \div 4096) % 64), 128 + ((r \div 64) % 64),
           128 + (r % 64)>>

-----------------------------------------------------------------------------
(* Character classes *)

\* the letters outside ASCII the model knows (U+00E9)
OtherLetters == {233}

isLetter(ch) == (65 <= ch /\ ch <= 90) \/ (97 <= ch /\ ch <= 122) \/ ch \in OtherLetters

isCommandChar(ch) == isLetter(ch) \/ ch = 64

\* isSpaceChar that knows the space only
isSpaceChar_SpaceOnly(ch) == ch = 32

isSpaceChar(ch) == ch = 32 \/ ch = 9

isDigit(ch) == 48 <= ch /\ ch <= 57

\* LookupKeyword over a keywords map filled from keywords_beg + 2 on
LookupKeyword_SkipsFirst(name) ==
    IF \E k \in (keywords_beg + 2)..(keywords_end - 1) : TokenString(k) = name
    THEN CHOOSE k \in (keywords_beg + 2)..(keywords_end - 1) : TokenString(k) = name
    ELSE COMMAND

\* token.LookupKeyword: name is the bytes after the backslash
LookupKeyword(name) ==
    IF \E k \in KeywordToks : TokenString(k) = name
    THEN CHOOSE k \in KeywordToks : TokenString(k) = name
    ELSE COMMAND

\* LookupSymbol over a symbols map filled from symbols_beg + 2 on
LookupSymbol_SkipsFirst(ch) ==
    IF \E k \in (symbols_beg + 2)..(symbols_end - 1) : TokenString(k) = EncodeRune(ch)
    THEN CHOOSE k \in (symbols_beg + 2)..(symbols_end - 1) : TokenString(k) = EncodeRune(ch)
    ELSE ILLEGAL

\* token.LookupSymbol
LookupSymbol(ch) ==
    IF \E k \in SymbolToks : TokenString(k) = EncodeRune(ch)
    THEN CHOOSE k \in SymbolToks : TokenString(k) = EncodeRune(ch)
    ELSE ILLEGAL

\* token.IsSymbol
IsSymbol(ch) == \E k \in SymbolToks : TokenString(k) = EncodeRune(ch)

\* token.IsKeyword
IsKeyword(tok) == tok > keywords_beg /\ tok < keywords_end

-----------------------------------------------------------------------------
(* Scanner.  A scanner in the middle of a call is the record
   [src, handler, offset, rdOffset, ch, file, errs]: the Scanner's fields, the
   File it writes line starts to and the calls made to the error handler. *)

bom == 65279
eof == -1

\* File.Pos
FilePos(f, offset) == f.base + offset

\* error with a handler that makes the scanner drop the rest of the source
error_HandlerSkips(m, offs, msg) ==
    IF m.handler
    THEN [m EXCEPT !.errs = Append(@, [pos |-> ZeroPosition, msg |-> msg]),
                   !.rdOffset = Len(m.src)]
    ELSE m

\* Scanner.error: the handler, when there is one, gets the resolved position
error(m, offs, msg) ==
    IF m.handler
    THEN [m EXCEPT !.errs = Append(@,
            [pos |-> FileSetPosition([base |-> m.file.base + m.file.size + 1,
                                      files |-> <<m.file>>], FilePos(m.file, offs)),
             msg |-> msg])]
    ELSE m

\* F applied to the value of v: the statement that follows v in the code
Then(v, F(_)) == CHOOSE r \in {F(x) : x \in {v}} : TRUE

\* Scanner.next, the switch on the byte b at rdOffset: [msg, r, w], the message
\* s.error is called with (<<>> when it is not called), the rune and its width.
\* in is s.src[s.rdOffset:] and d what utf8.DecodeRune makes of it
nextRune(offset, b, in, d) ==
    IF b = 0
    THEN [msg |-> <<"illegal character NUL">>, r |-> b, w |-> 1]
    ELSE IF b >= RuneSelf
    THEN IF d.r = RuneError /\ d.w = 1
         THEN IF /\ offset = 0
                 /\ Len(in) >= 2
                 /\ \/ in[1] = 255 /\ in[2] = 254
                    \/ in[1] = 254 /\ in[2] = 255
              THEN [msg |-> <<"illegal UTF-8 encoding (got UTF-16)">>,
                    r |-> d.r, w |-> Len(in) + d.w]
              ELSE [msg |-> <<"illegal UTF-8 encoding">>, r |-> d.r, w |-> d.w]
         ELSE IF d.r = bom /\ offset > 0
         THEN [msg |-> <<"illegal byte order mark">>, r |-> d.r, w |-> d.w]
         ELSE [msg |-> <<>>, r |-> d.r, w |-> d.w]
    ELSE [msg |-> <<>>, r |-> b, w |-> 1]

\* Scanner.next after the switch: the error is reported, `s.rdOffset += w` and
\* `s.ch = r`
nextAdvance(m1, u) ==
    [(IF u.msg = <<>> THEN m1 ELSE error(m1, m1.offset, u.msg))
        EXCEPT !.rdOffset = @ + u.w, !.ch = u.r]

\* Scanner.next from `r, w := rune(s.src[s.rdOffset]), 1` on
nextRead(m1) ==
    Then(nextRune(m1.offset, m1.src[m1.rdOffset + 1],
                  SubSeq(m1.src, m1.rdOffset + 1, Len(m1.src)),
                  DecodeRune(SubSeq(m1.src, m1.rdOffset + 1, Len(m1.src)))),
         LAMBDA u : nextAdvance(m1, u))

\* Scanner.next
next(m) ==
    IF m.rdOffset < Len(m.src)
    THEN Then([m EXCEPT !.offset = m.rdOffset,
                        !.file = IF m.ch = 10 THEN AddLine(@, m.rdOffset) ELSE @],
              nextRead)
    ELSE [m EXCEPT !.offset = Len(m.src),
                   !.file = IF m.ch = 10 THEN AddLine(@, Len(m.src)) ELSE @,
                   !.ch = eof]

\* src[lo:hi]
Slice(src, lo, hi) == SubSeq(src, lo + 1, hi)

\* Scanner.scanComment
RECURSIVE scanCommentLoop(_)
scanCommentLoop(m) ==
    IF m.ch # 10 /\ m.ch # eof THEN Then(next(m), scanCommentLoop) ELSE m

scanComment(m) ==
    Then(scanCommentLoop(m),
         LAMBDA m1 : [m |-> m1, lit |-> Slice(m.src, m.offset, m1.offset)])

\* Scanner.scanCommand
RECURSIVE scanCommandLoop(_)
scanCommandLoop(m) ==
    IF isCommandChar(m.ch) THEN Then(next(m), scanCommandLoop) ELSE m

\* scanCommand without the normalization of "newline"
scanCommandName_NoNormalize(m, m1) ==
    LET name == Slice(m.src, m.offset, m1.offset)
    IN  [m |-> m1, tok |-> LookupKeyword(name), lit |-> name]

scanCommandName(m, m1) ==
    LET name == Slice(m.src, m.offset, m1.offset)
    IN  IF name = <<110, 101, 119, 108, 105, 110, 101>>  \* "newline"
        THEN [m |-> m1, tok |-> COMMAND, lit |-> <<108, 105, 110, 101, 98, 114, 101, 97, 107>>]
        ELSE [m |-> m1, tok |-> LookupKeyword(name), lit |-> name]

scanCommand(m) == Then(scanCommandLoop(m), LAMBDA m1 : scanCommandName(m, m1))

\* Scanner.scanWord; b is the strings.Builder
RECURSIVE scanWordLoop(_, _)
\* the backslash branch of scanWord always rolling back
scanWordEscape_NeverSplices(m, m1, b) ==
    [m |-> next([m1 EXCEPT !.rdOffset = m.offset]), lit |-> b]

scanWordEscape(m, m1, b) ==
    IF IsSymbol(m1.ch)
    THEN Then(<<next(m1), b \o EncodeRune(m1.ch)>>, LAMBDA p : scanWordLoop(p[1], p[2]))
    ELSE [m |-> next([m1 EXCEPT !.rdOffset = m.offset]), lit |-> b]

scanWordLoop(m, b) ==
    IF isLetter(m.ch) \/ isDigit(m.ch)
    THEN Then(<<next(m), b \o EncodeRune(m.ch)>>, LAMBDA p : scanWordLoop(p[1], p[2]))
    ELSE IF m.ch = 92
    THEN Then(next(m), LAMBDA m1 : scanWordEscape(m, m1, b))
    ELSE [m |-> m, lit |-> b]

\* scanWord restoring the cursor it started with when it returns
scanWord_RollsBackToStart(m) == [m |-> m, lit |-> scanWordLoop(m, <<>>).lit]

scanWord(m) == scanWordLoop(m, <<>>)

\* Scanner.scanNumber
RECURSIVE scanNumberLoop(_)
scanNumberLoop(m) ==
    IF isDigit(m.ch) THEN Then(next(m), scanNumberLoop) ELSE m

\* scanNumber without its loop: the first digit alone
scanNumber_OneDigit(m) == [m |-> m, lit |-> Slice(m.src, m.offset - 1, m.offset)]

scanNumber(m) ==
    Then(scanNumberLoop(m),
         LAMBDA m1 : [m |-> m1, lit |-> Slice(m.src, m.offset - 1, m1.offset)])

\* Scanner.skipWhitespace
RECURSIVE skipWhitespace(_)
skipWhitespace(m) ==
    IF isSpaceChar(m.ch) THEN Then(next(m), skipWhitespace) ELSE m

\* Scanner.Scan: [m (the scanner after the call), pos, tok, lit]
RECURSIVE Scan(_)

\* the escaped newline keeping the position of the backslash for the token it returns
ScanContinuation_KeepsPos(pos, m1) ==
    Then(Then(next(m1), Scan), LAMBDA r : [r EXCEPT !.pos = pos])

\* Scan at an escaped newline: `s.next(); return s.Scan()`
ScanContinuation(pos, m1) == Then(next(m1), Scan)

\* Scan after `s.next() // consume '\'`: m1 is the scanner on the rune after it
ScanBackslash(pos, m1) ==
    IF m1.ch = 92
    THEN [m |-> next(m1), pos |-> pos, tok |-> COMMAND, lit |-> <<108, 105, 110, 101, 98, 114, 101, 97, 107>>]
    ELSE IF isCommandChar(m1.ch)
    THEN Then(scanCommand(m1),
              LAMBDA c : [m |-> c.m, pos |-> pos, tok |-> c.tok, lit |-> c.lit])
    ELSE IF IsSymbol(m1.ch)
    THEN Then(scanWord([m1 EXCEPT !.offset = @ - 1]),
              LAMBDA w : [m |-> w.m, pos |-> pos, tok |-> WORD, lit |-> w.lit])
    ELSE IF isSpaceChar(m1.ch)
    THEN [m |-> next(m1), pos |-> pos, tok |-> COMMAND, lit |-> <<115, 112, 97, 99, 101>>]
    ELSE IF m1.ch = 10
    THEN ScanContinuation(pos, m1)
    ELSE Then(next(m1),
              LAMBDA m2 : [m |-> m2, pos |-> pos, tok |-> ILLEGAL, lit |-> EncodeRune(m2.ch)])

\* Scan after skipWhitespace
ScanToken(m0) ==
    LET pos == FilePos(m0.file, m0.offset)
        ch  == m0.ch
    IN  IF isLetter(ch)
        THEN Then(scanWord(m0),
                  LAMBDA w : [m |-> w.m, pos |-> pos, tok |-> WORD, lit |-> w.lit])
        ELSE IF ch = 92
        THEN Then(next(m0), LAMBDA m1 : ScanBackslash(pos, m1))
        ELSE IF ch = 10
        THEN [m |-> next(m0), pos |-> pos, tok |-> NEWLINE, lit |-> <<10>>]
        ELSE IF isDigit(ch)
        THEN Then(Then(next(m0), scanNumber),
                  LAMBDA n : [m |-> n.m, pos |-> pos, tok |-> NUMBER, lit |-> n.lit])
        ELSE IF ch = 37
        THEN Then(scanComment(m0),
                  LAMBDA c : [m |-> c.m, pos |-> pos, tok |-> COMMENT, lit |-> c.lit])
        ELSE IF IsSymbol(ch)
        THEN [m |-> next(m0), pos |-> pos, tok |-> LookupSymbol(ch), lit |-> EncodeRune(ch)]
        ELSE IF ch = eof
        THEN [m |-> m0, pos |-> pos, tok |-> EOF, lit |-> <<69, 79, 70>>]
        ELSE Then(next(m0),
                  LAMBDA m1 : [m |-> error(m1, m1.offset, <<"illegal character %#U", ch>>),
                               pos |-> pos, tok |-> ILLEGAL, lit |-> EncodeRune(ch)])

\* Scan taking the position before the leading blanks are skipped
Scan_PosBeforeSkip(m) ==
    Then(skipWhitespace(m),
         LAMBDA m0 : [ScanToken(m0) EXCEPT !.pos = FilePos(m.file, m.offset)])

Scan(m) == Then(skipWhitespace(m), ScanToken)

\* Scanner.Init on a zero Scanner
ScannerInit(f, src, handler) ==
    next([src |-> src, handler |-> handler, offset |-> 0, rdOffset |-> 0, ch |-> 0,
          file |-> f, errs |-> <<>>])

-----------------------------------------------------------------------------
(* The position model, one call per step *)

NoCall == [op |-> "none", arg |-> <<>>, ret |-> 0, panicked |-> FALSE]

\* no thread is inside a call
Idle == [pc |-> "idle", op |-> "none", a |-> <<>>, f |-> 0, snap |-> <<>>, n |-> 0]

Threads == 1..NumThreads

\* writer holds the lock, pending has called Lock and waits for the readers inside
\* to leave
RWFree == [writer |-> 0, readers |-> {}, pending |-> 0]

\* a Scanner that was never initialized
NoScanner == [src |-> <<>>, handler |-> FALSE, offset |-> 0, rdOffset |-> 0, ch |-> 0]

\* no walk was started
NoWalk == [root |-> <<>>, stack |-> <<>>, visits |-> <<>>]

\* no parser was made
NoParser ==
    [mode |-> 0, tok |-> 0, lit |-> <<>>, pos |-> 0, imports |-> <<>>, result |-> <<>>,
     start |-> 0, body |-> <<>>, text |-> <<>>]

Init ==
    /\ fset = NewFileSet
    /\ last = NoCall
    /\ thr = [t \in Threads |-> Idle]
    /\ smu = RWFree
    /\ fmu = <<>>
    /\ scn = NoScanner
    /\ errs = <<>>
    /\ toks = <<>>
    /\ wlk = NoWalk
    /\ prs = NoParser

BaseOp ==
    /\ last' = [op |-> "Base", arg |-> <<>>, ret |-> FileSetBase(fset), panicked |-> FALSE]
    /\ UNCHANGED <<fset, notPos>>

AddFileOp ==
    \E filename \in FileNames, d \in BaseDeltas, size \in Sizes :
        /\ Len(fset.files) < MaxFiles
        /\ LET base == Wrap(fset.base + d)
               r == AddFile(fset, filename, base, size)
           IN  /\ fset' = r.s
               /\ last' = [op |-> "AddFile", arg |-> <<filename, base, size>>,
                           ret |-> r.f, panicked |-> r.panicked]
        /\ UNCHANGED notPos

AddLineOp ==
    \E h \in 1..Len(fset.files), offset \in Offsets :
        /\ fset' = [fset EXCEPT !.files[h] = AddLine(fset.files[h], offset)]
        /\ last' = [op |-> "AddLine", arg |-> <<h, offset>>, ret |-> 0, panicked |-> FALSE]
        /\ UNCHANGED notPos

LineCountOp ==
    \E h \in 1..Len(fset.files) :
        /\ last' = [op |-> "LineCount", arg |-> <<h>>,
                    ret |-> LineCount(fset.files[h]), panicked |-> FALSE]
        /\ UNCHANGED <<fset, notPos>>

FileOp ==
    \E p \in Coords :
        /\ last' = [op |-> "File", arg |-> <<p>>, ret |-> FileSetFile(fset, p),
                    panicked |-> FALSE]
        /\ UNCHANGED <<fset, notPos>>

PositionOp ==
    \E p \in Coords :
        /\ last' = [op |-> "Position", arg |-> <<p>>, ret |-> FileSetPosition(fset, p),
                    panicked |-> FALSE]
        /\ UNCHANGED <<fset, notPos>>

FilePositionOp ==
    \E h \in 1..Len(fset.files), p \in Coords :
        /\ last' = [op |-> "FilePosition", arg |-> <<h, p>>,
                    ret |-> FilePosition(fset.files[h], p), panicked |-> FALSE]
        /\ UNCHANGED <<fset, notPos>>

Next ==
    \/ BaseOp
    \/ AddFileOp
    \/ AddLineOp
    \/ LineCountOp
    \/ FileOp
    \/ PositionOp
    \/ FilePositionOp

Spec == Init /\ [][Next]_vars

-----------------------------------------------------------------------------
(* sync.RWMutex and sync.Mutex *)

\* Lock with readers inside not waited for
RWCanLock_IgnoresReaders(mu) == mu.writer = 0

\* RWMutex.Lock can be taken
RWCanLock(mu) == mu.writer = 0 /\ mu.readers = {}

\* RWMutex.RLock can be taken
RWCanRLock(mu) == mu.writer = 0 /\ mu.pending = 0

-----------------------------------------------------------------------------
(* The position model called from several threads, one shared access per step *)

\* the inputs the threads call with
ConcBases == {1, 4}
ConcSizes == {-1, 2}
ConcCoords == {0, 2, 4}
ConcOffsets == {0, 1}

ConcCalls ==
    {[op |-> "AddFile", a |-> <<"a.tex", b, sz>>] : b \in ConcBases, sz \in ConcSizes}
    \cup {[op |-> "Base", a |-> <<>>]}
    \cup {[op |-> "File", a |-> <<p>>] : p \in ConcCoords}
    \cup {[op |-> "Position", a |-> <<p>>] : p \in ConcCoords}
    \cup {[op |-> "FilePosition", a |-> <<h, p>>] : h \in 1..Len(fset.files), p \in ConcCoords}
    \cup {[op |-> "AddLine", a |-> <<h, off>>] : h \in 1..Len(fset.files), off \in ConcOffsets}
    \cup {[op |-> "LineCount", a |-> <<h>>] : h \in 1..Len(fset.files)}

\* where a call starts: the code a call runs before its first access to shared state
FirstPc(c) ==
    CASE c.op = "AddFile"      -> "A_lock"
      [] c.op = "Base"         -> "B_rlock"
      [] c.op = "File"         -> IF c.a[1] # NoPos THEN "S_rlock" ELSE "idle"
      [] c.op = "Position"     -> IF c.a[1] # NoPos THEN "S_rlock" ELSE "idle"
      [] c.op = "FilePosition" ->
            LET f == fset.files[c.a[1]]
                p == c.a[2]
            IN  IF p # NoPos /\ p >= f.base /\ p < f.base + f.size
                THEN "P_line" ELSE "idle"
      [] c.op = "AddLine"      -> "AL_lock"
      [] c.op = "LineCount"    -> "LC_lock"

At(t, pc) == thr[t].pc = pc

Goto(t, pc) == thr' = [thr EXCEPT ![t].pc = pc]

Return(t) == thr' = [thr EXCEPT ![t] = Idle]

\* a thread enters a call
CStart ==
    \E t \in Threads, c \in ConcCalls :
        /\ At(t, "idle")
        /\ FirstPc(c) # "idle"
        /\ thr' = [thr EXCEPT ![t] = [Idle EXCEPT !.pc = FirstPc(c), !.op = c.op, !.a = c.a,
                                          !.f = IF c.op = "FilePosition" THEN c.a[1] ELSE 0]]
        /\ UNCHANGED <<fset, smu, fmu, notConc>>

(* FileSet.Base *)
CBaseRLock ==
    \E t \in Threads :
        /\ At(t, "B_rlock") /\ RWCanRLock(smu)
        /\ smu' = [smu EXCEPT !.readers = @ \cup {t}]
        /\ Goto(t, "B_read")
        /\ UNCHANGED <<fset, fmu, notConc>>

CBaseRead ==
    \E t \in Threads :
        /\ At(t, "B_read")
        /\ thr' = [thr EXCEPT ![t].n = FileSetBase(fset), ![t].pc = "B_runlock"]
        /\ UNCHANGED <<fset, smu, fmu, notConc>>

CBaseRUnlock ==
    \E t \in Threads :
        /\ At(t, "B_runlock")
        /\ smu' = [smu EXCEPT !.readers = @ \ {t}]
        /\ Return(t)
        /\ UNCHANGED <<fset, fmu, notConc>>

(* FileSet.AddFile *)
\* Lock finds readers inside: it keeps new readers out and waits
CAddFileLockWait ==
    \E t \in Threads :
        /\ At(t, "A_lock")
        /\ smu.writer = 0 /\ smu.pending = 0 /\ smu.readers # {}
        /\ smu' = [smu EXCEPT !.pending = t]
        /\ Goto(t, "A_wait")
        /\ UNCHANGED <<fset, fmu, notConc>>

CAddFileLock ==
    \E t \in Threads :
        /\ \/ At(t, "A_lock") /\ smu.pending = 0
           \/ At(t, "A_wait") /\ smu.pending = t
        /\ RWCanLock(smu)
        /\ smu' = [smu EXCEPT !.writer = t, !.pending = 0]
        /\ Goto(t, "A_check")
        /\ UNCHANGED <<fset, fmu, notConc>>

\* a panic that leaves AddFile without running the deferred Unlock
AfterChecks_NoDefer(panicked) == IF panicked THEN "idle" ELSE "A_setbase"

\* where AddFile goes on after its three checks: a panic unwinds the call, which
\* runs the deferred Unlock
AfterChecks(panicked) == IF panicked THEN "A_panic" ELSE "A_setbase"

\* the three checks
CAddFileCheck ==
    \E t \in Threads :
        /\ At(t, "A_check")
        /\ LET r == AddFile(fset, thr[t].a[1], thr[t].a[2], thr[t].a[3])
           IN  thr' = [thr EXCEPT ![t].pc = AfterChecks(r.panicked),
                                  ![t].n = r.s.base]
        /\ UNCHANGED <<fset, smu, fmu, notConc>>

\* s.base = base
CAddFileSetBase ==
    \E t \in Threads :
        /\ At(t, "A_setbase")
        /\ fset' = [fset EXCEPT !.base = thr[t].n]
        /\ Goto(t, "A_append")
        /\ UNCHANGED <<smu, fmu, notConc>>

\* s.files = append(s.files, f)
CAddFileAppend ==
    \E t \in Threads :
        /\ At(t, "A_append")
        /\ fset' = [fset EXCEPT !.files =
                Append(@, [name |-> thr[t].a[1], base |-> thr[t].a[2],
                           size |-> thr[t].a[3], lines |-> <<0>>])]
        /\ fmu' = Append(fmu, 0)
        /\ Goto(t, "A_unlock")
        /\ UNCHANGED <<smu, notConc>>

\* the deferred Unlock, run when AddFile returns and when it panics; the caller
\* that recovers the panic goes on
CAddFileUnlock ==
    \E t \in Threads :
        /\ At(t, "A_unlock") \/ At(t, "A_panic")
        /\ smu' = [smu EXCEPT !.writer = 0]
        /\ Return(t)
        /\ UNCHANGED <<fset, fmu, notConc>>

(* FileSet.file, called by FileSet.File and FileSet.Position *)
CFileRLock ==
    \E t \in Threads :
        /\ At(t, "S_rlock") /\ RWCanRLock(smu)
        /\ smu' = [smu EXCEPT !.readers = @ \cup {t}]
        /\ Goto(t, "S_search")
        /\ UNCHANGED <<fset, fmu, notConc>>

CFileSearch ==
    \E t \in Threads :
        /\ At(t, "S_search")
        /\ thr' = [thr EXCEPT ![t].f = file(fset, thr[t].a[1]), ![t].pc = "S_runlock"]
        /\ UNCHANGED <<fset, smu, fmu, notConc>>

\* the deferred RUnlock; FileSet.Position goes on to f.position(p) when f is not nil
CFileRUnlock ==
    \E t \in Threads :
        /\ At(t, "S_runlock")
        /\ smu' = [smu EXCEPT !.readers = @ \ {t}]
        /\ IF thr[t].op = "Position" /\ thr[t].f # NilFile
           THEN Goto(t, "P_line")
           ELSE Return(t)
        /\ UNCHANGED <<fset, fmu, notConc>>

(* File.position: File.line ranges over f.lines, no lock taken *)

\* what an unsynchronized read of the slice f.lines can give: the table as it is,
\* and, while an AddLine on the File is inside its append, also the table with the
\* new entry or with the new length over a slot not yet written
RacyLines(h) ==
    {fset.files[h].lines}
    \cup UNION {{Append(fset.files[h].lines, thr[w].a[2]), Append(fset.files[h].lines, 0)} :
                w \in {u \in Threads : At(u, "AL_append") /\ thr[u].a[1] = h}}

CPositionLine ==
    \E t \in Threads :
        /\ At(t, "P_line")
        /\ \E ls \in RacyLines(thr[t].f) :
              thr' = [thr EXCEPT ![t].snap = ls, ![t].pc = "P_scan"]
        /\ UNCHANGED <<fset, smu, fmu, notConc>>

CPositionScan ==
    \E t \in Threads :
        /\ At(t, "P_scan")
        /\ LET p == thr[t].a[Len(thr[t].a)]
               f == [fset.files[thr[t].f] EXCEPT !.lines = thr[t].snap]
           IN  position(f, p).Line >= 0
        /\ Return(t)
        /\ UNCHANGED <<fset, smu, fmu, notConc>>

(* File.AddLine *)
CAddLineLock ==
    \E t \in Threads :
        /\ At(t, "AL_lock") /\ fmu[thr[t].a[1]] = 0
        /\ fmu' = [fmu EXCEPT ![thr[t].a[1]] = t]
        /\ Goto(t, "AL_check")
        /\ UNCHANGED <<fset, smu, notConc>>

CAddLineCheck ==
    \E t \in Threads :
        /\ At(t, "AL_check")
        /\ LET f == fset.files[thr[t].a[1]]
           IN  Goto(t, IF AddLine(f, thr[t].a[2]) # f THEN "AL_append" ELSE "AL_unlock")
        /\ UNCHANGED <<fset, smu, fmu, notConc>>

CAddLineAppend ==
    \E t \in Threads :
        /\ At(t, "AL_append")
        /\ fset' = [fset EXCEPT !.files[thr[t].a[1]] = AddLine(@, thr[t].a[2])]
        /\ Goto(t, "AL_unlock")
        /\ UNCHANGED <<smu, fmu, notConc>>

CAddLineUnlock ==
    \E t \in Threads :
        /\ At(t, "AL_unlock")
        /\ fmu' = [fmu EXCEPT ![thr[t].a[1]] = 0]
        /\ Return(t)
        /\ UNCHANGED <<fset, smu, notConc>>

(* File.LineCount *)
CLineCountLock ==
    \E t \in Threads :
        /\ At(t, "LC_lock") /\ fmu[thr[t].a[1]] = 0
        /\ fmu' = [fmu EXCEPT ![thr[t].a[1]] = t]
        /\ Goto(t, "LC_read")
        /\ UNCHANGED <<fset, smu, notConc>>

CLineCountRead ==
    \E t \in Threads :
        /\ At(t, "LC_read")
        /\ thr' = [thr EXCEPT ![t].n = LineCount(fset.files[thr[t].a[1]]),
                              ![t].pc = "LC_unlock"]
        /\ UNCHANGED <<fset, smu, fmu, notConc>>

CLineCountUnlock ==
    \E t \in Threads :
        /\ At(t, "LC_unlock")
        /\ fmu' = [fmu EXCEPT ![thr[t].a[1]] = 0]
        /\ Return(t)
        /\ UNCHANGED <<fset, smu, notConc>>

NextConc ==
    \/ CStart
    \/ CBaseRLock \/ CBaseRead \/ CBaseRUnlock
    \/ CAddFileLockWait \/ CAddFileLock \/ CAddFileCheck \/ CAddFileSetBase \/ CAddFileAppend \/ CAddFileUnlock
    \/ CFileRLock \/ CFileSearch \/ CFileRUnlock
    \/ CPositionLine \/ CPositionScan
    \/ CAddLineLock \/ CAddLineCheck \/ CAddLineAppend \/ CAddLineUnlock
    \/ CLineCountLock \/ CLineCountRead \/ CLineCountUnlock

SpecConc == Init /\ [][NextConc]_vars

\* a step of thread t inside a call
Running(t) == NextConc /\ thr[t].pc # "idle" /\ thr'[t] # thr[t]

\* every thread inside a call goes on, and a thread waiting for a lock gets it
\* when the lock is free again and again: sync.Mutex and sync.RWMutex hand the
\* lock to a waiter and do not let it starve
SpecConcLive == Init /\ [][NextConc]_vars /\ \A t \in Threads : SF_vars(Running(t))

-----------------------------------------------------------------------------
(* The scanner over one File, one Scan call per step *)

\* the bytes the sources are made of: a 1 \ $ space newline % ( and 0xFF
Alphabet == {97, 49, 92, 36, 32, 10, 37, 40, 255}

\* sources of the scanner's tests: commands and keywords, words with escaped
\* symbols, control space and \newline, a comment line before a command
TestSources ==
    {
        \* \import
        <<92, 105, 109, 112, 111, 114, 116>>,
        \* \begin
        <<92, 98, 101, 103, 105, 110>>,
        \* \end
        <<92, 101, 110, 100>>,
        \* \normal
        <<92, 110, 111, 114, 109, 97, 108>>,
        \* \newline
        <<92, 110, 101, 119, 108, 105, 110, 101>>,
        \* foo\$bar a\_b hello\@world
        <<102, 111, 111, 92, 36, 98, 97, 114, 32, 97, 92, 95, 98, 32, 104, 101, 108, 108, 111, 92, 64, 119, 111, 114, 108, 100>>,
        \* word1\newline word2\ word3
        <<119, 111, 114, 100, 49, 92, 110, 101, 119, 108, 105, 110, 101, 32, 119, 111, 114, 100, 50, 92, 32, 119, 111, 114, 100, 51>>,
        \* % comment<NL>\section{Hello}<NL>
        <<37, 32, 99, 111, 109, 109, 101, 110, 116, 10, 92, 115, 101, 99, 116, 105, 111, 110, 123, 72, 101, 108, 108, 111, 125, 10>>,
        \* \section[Short title]{Long title}<NL>\includegraphics[width=5cm, height=3cm]{image.png}
        <<92, 115, 101, 99, 116, 105, 111, 110, 91, 83, 104, 111, 114, 116, 32, 116, 105, 116, 108, 101, 93, 123, 76, 111, 110, 103, 32, 116, 105, 116, 108, 101, 125, 10, 92, 105, 110, 99, 108, 117, 100, 101, 103, 114, 97, 112, 104, 105, 99, 115, 91, 119, 105, 100, 116, 104, 61, 53, 99, 109, 44, 32, 104, 101, 105, 103, 104, 116, 61, 51, 99, 109, 93, 123, 105, 109, 97, 103, 101, 46, 112, 110, 103, 125>>
    }

\* sources with bytes outside the Alphabet: a tab after a backslash, numbers, every
\* symbol but % and the backslash, NUL, a byte order mark
\* inside the source, and the two UTF-16 byte order marks
ExampleSources ==
    {
        \* \<TAB>a
        <<92, 9, 97>>,
        \* 45.67
        <<52, 53, 46, 54, 55>>,
        \* 5cm
        <<53, 99, 109>>,
        \* {}[].:,;=<>/*!&$#^-_~|@
        <<123, 125, 91, 93, 46, 58, 44, 59, 61, 60, 62, 47, 42, 33, 38, 36, 35, 94, 45, 95, 126, 124, 64>>,
        \* a<NUL>(
        <<97, 0, 40>>,
        \* a, U+FEFF, a
        <<97, 239, 187, 191, 97>>,
        \* FF FE a <NL> (
        <<255, 254, 97, 10, 40>>,
        \* FE FF
        <<254, 255>>
    }

\* the sources of up to n bytes, the tests' sources and the examples
SourcesUpTo(n) ==
    UNION {[1..k -> Alphabet] : k \in 0..n} \cup TestSources \cup ExampleSources

Sources == SourcesUpTo(MaxSrcLen)

\* the scanner in the middle of a call, from the state
Machine ==
    [src |-> scn.src, handler |-> scn.handler, offset |-> scn.offset,
     rdOffset |-> scn.rdOffset, ch |-> scn.ch, file |-> fset.files[1], errs |-> errs]

ScannerOf(m) ==
    [src |-> m.src, handler |-> m.handler, offset |-> m.offset,
     rdOffset |-> m.rdOffset, ch |-> m.ch]

\* the set after AddFile(filename, fset.Base(), len(src)) on a new set.  Go's int
\* holds the length of every source, so the narrow integer of the position model
\* is not applied to the sources of the scanner
ScanFileSet(src) ==
    LET base == FileSetBase(NewFileSet)
    IN  [base |-> base + Len(src) + 1,
         files |-> <<[name |-> "a.tex", base |-> base, size |-> Len(src), lines |-> <<0>>]>>]

\* the File is registered at Base() with the size of the source, then Init is called
InitScanOver(S) ==
    \E src \in S, handler \in BOOLEAN :
        \E s \in {ScanFileSet(src)} :
        \E m \in {ScannerInit(s.files[1], src, handler)} :
            /\ fset = [s EXCEPT !.files[1] = m.file]
            /\ scn = ScannerOf(m)
            /\ errs = m.errs
            /\ toks = <<>>
            /\ last = NoCall
            /\ thr = [t \in Threads |-> Idle]
            /\ smu = RWFree
            /\ fmu = <<>>
            /\ wlk = NoWalk
            /\ prs = NoParser

InitScan == InitScanOver(Sources)

ScanOp ==
    /\ Len(toks) < Len(scn.src) + ExtraScans
    /\ \E r \in {Scan(Machine)} :
           /\ scn' = ScannerOf(r.m)
           /\ fset' = [fset EXCEPT !.files[1] = r.m.file]
           /\ errs' = r.m.errs
           /\ toks' = Append(toks, [pos |-> r.pos, tok |-> r.tok, lit |-> r.lit])
    /\ UNCHANGED notScan

NextScan == ScanOp

SpecScan == InitScan /\ [][NextScan]_vars

\* the caller keeps calling Scan until it has seen EOF (the loops of the tests and
\* of the parser): a Scan that can be called is called
InitScanLive == InitScanOver(SourcesUpTo(MaxLiveLen))

SpecScanLive == InitScanLive /\ [][NextScan]_vars /\ WF_vars(ScanOp)

-----------------------------------------------------------------------------
(* ast.Walk, one Visit per step.  A node is a record [kind]; a TextBlock also
   has Content and a File has Imports and Body.  The calls of Walk that are
   still to be made are the frames of wlk.stack, the next one first; a frame is
   [v, node, path], path being the steps from the root to the node. *)

\* the most entries (nodes and nils) of a tree below its Body, plus one
MaxNodes == 4

\* the nil Node
NilNode == [kind |-> "nil"]

\* a node of a variant without children
Leaf(k) == [kind |-> k]

\* what a Content holds in the model: a Word or nil
ContentNodes == {Leaf("Word"), NilNode}

\* the entries without children a Body holds in the model: a Comment or nil
BodyLeaves == {Leaf("Comment"), NilNode}

\* the variants without children
LeafKinds == {"Word", "Newline", "LineBreak", "Comment", "ImportSpec"}

\* the Imports of a File: none or one
ImportLists == {<<>>, <<Leaf("ImportSpec")>>}

\* the sequences of length n over S
RECURSIVE SeqsOfLen(_, _)
SeqsOfLen(S, n) ==
    IF n = 0 THEN {<<>>} ELSE {<<x>> \o s : x \in S, s \in SeqsOfLen(S, n - 1)}

\* the TextBlocks of n entries, itself counted
TextBlocksOf(n) ==
    {[kind |-> "TextBlock", Content |-> c] : c \in SeqsOfLen(ContentNodes, n - 1)}

RECURSIVE FilesOf(_), BodyNodesOf(_), Bodies(_)

\* the Files of n entries, itself counted
FilesOf(n) ==
    {[kind |-> "File", Imports |-> i, Body |-> b] : i \in ImportLists, b \in Bodies(n - 1)}

\* the entries of a Body that have n entries, themselves counted
BodyNodesOf(n) ==
    (IF n = 1 THEN BodyLeaves ELSE {}) \cup TextBlocksOf(n) \cup FilesOf(n)

\* the Bodies of n entries in all
Bodies(n) ==
    IF n = 0 THEN {<<>>}
    ELSE UNION {{<<x>> \o s : x \in BodyNodesOf(k), s \in Bodies(n - k)} : k \in 1..n}

\* the nodes Walk is called with
Roots ==
    {NilNode} \cup {Leaf(k) : k \in LeafKinds}
        \cup UNION {TextBlocksOf(n) \cup FilesOf(n) : n \in 1..MaxNodes}

\* the Visitors: values of the interface other than nil
Visitors == {1, 2}
NilVisitor == 0

\* the children Walk ranges over, with the Imports of a File among them
Children_WithImports(n) ==
    IF n.kind = "TextBlock" THEN n.Content
    ELSE IF n.kind = "File" THEN n.Imports \o n.Body
    ELSE <<>>

\* the type switch of Walk: the children it ranges over
Children(n) ==
    IF n.kind = "TextBlock" THEN n.Content
    ELSE IF n.kind = "File" THEN n.Body
    ELSE <<>>

\* the calls Walk(w, c) of the range loop over the children of the node of frame f
ChildCalls(f, w) ==
    [i \in 1..Len(Children(f.node)) |->
        [v |-> w, node |-> Children(f.node)[i], path |-> Append(f.path, i)]]

\* ast.Walk(1, root) is called
InitWalk ==
    \E root \in Roots :
        /\ wlk = [root |-> root,
                  stack |-> <<[v |-> 1, node |-> root, path |-> <<>>]>>,
                  visits |-> <<>>]
        /\ fset = NewFileSet
        /\ last = NoCall
        /\ thr = [t \in Threads |-> Idle]
        /\ smu = RWFree
        /\ fmu = <<>>
        /\ scn = NoScanner
        /\ errs = <<>>
        /\ toks = <<>>
        /\ prs = NoParser

\* Walk with a nil node returns at once
WalkNilOp ==
    /\ wlk.stack # <<>>
    /\ Head(wlk.stack).node = NilNode
    /\ wlk' = [wlk EXCEPT !.stack = Tail(@)]
    /\ UNCHANGED notWalk

\* Visit returns nil: Walk returns
VisitPruneOp ==
    /\ wlk.stack # <<>>
    /\ \E f \in {Head(wlk.stack)} :
           /\ f.node # NilNode
           /\ wlk' = [wlk EXCEPT
                        !.visits = Append(@, [v |-> f.v, path |-> f.path, node |-> f.node,
                                              ret |-> NilVisitor]),
                        !.stack = Tail(@)]
    /\ UNCHANGED notWalk

\* Visit returns a Visitor w: Walk goes on to the children with w
VisitDescendOp ==
    /\ wlk.stack # <<>>
    /\ \E f \in {Head(wlk.stack)}, w \in Visitors :
           /\ f.node # NilNode
           /\ wlk' = [wlk EXCEPT
                        !.visits = Append(@, [v |-> f.v, path |-> f.path, node |-> f.node,
                                              ret |-> w]),
                        !.stack = ChildCalls(f, w) \o Tail(@)]
    /\ UNCHANGED notWalk

NextWalk == WalkNilOp \/ VisitPruneOp \/ VisitDescendOp

SpecWalk == InitWalk /\ [][NextWalk]_vars

-----------------------------------------------------------------------------
(* The parser in imports-only mode, one turn of its loop per step.  The parser
   in the middle of a call is [m, tok, lit, pos]: its scanner and the token it
   looks at. *)

\* the sources of the parser are made of at most this many fragments
MaxFrags == 4

\* the fragments: \import { } a 1 space and a backslash
Fragments ==
    {<<92, 105, 109, 112, 111, 114, 116>>, <<123>>, <<125>>, <<97>>, <<49>>, <<32>>, <<92>>}

RECURSIVE Concat(_)
Concat(ss) == IF ss = <<>> THEN <<>> ELSE Head(ss) \o Concat(Tail(ss))

\* sources with more fragments: two imports, an import abandoned at another
\* import, at a word and at a third name, blanks and newlines between the
\* tokens of an import, an import in a comment
ParseExamples ==
    {
        \* \import{a}\import{a1}
        <<92, 105, 109, 112, 111, 114, 116, 123, 97, 125, 92, 105, 109, 112, 111, 114, 116, 123, 97, 49, 125>>,
        \* \import{\import{a}
        <<92, 105, 109, 112, 111, 114, 116, 123, 92, 105, 109, 112, 111, 114, 116, 123, 97, 125>>,
        \* \import a\import{a}
        <<92, 105, 109, 112, 111, 114, 116, 32, 97, 92, 105, 109, 112, 111, 114, 116, 123, 97, 125>>,
        \* \import{a 1 a}\import{a 1}
        <<92, 105, 109, 112, 111, 114, 116, 123, 97, 32, 49, 32, 97, 125, 92, 105, 109, 112, 111, 114, 116, 123, 97, 32, 49, 125>>,
        \* \import {\a}<NL>\import<NL>{ }
        <<92, 105, 109, 112, 111, 114, 116, 32, 123, 92, 97, 125, 10, 92, 105, 109, 112, 111, 114, 116, 10, 123, 32, 125>>,
        \* % \import{a}<NL>\import{a}
        <<37, 32, 92, 105, 109, 112, 111, 114, 116, 123, 97, 125, 10, 92, 105, 109, 112, 111, 114, 116, 123, 97, 125>>
    }

ParseSources ==
    {Concat(ss) : ss \in UNION {SeqsOfLen(Fragments, n) : n \in 0..MaxFrags}}
        \cup ParseExamples

\* Mode: ImportsOnly is bit 0, ParseFull bit 1
ImportsOnly == 1
Modes == {0, ImportsOnly, 3}

\* the nil *ast.ImportSpec
NilSpec == [Token |-> ILLEGAL, Name |-> <<>>, Path |-> <<>>, Pos_ |-> NoPos, End_ |-> NoPos]

\* the parser has not returned
NoResult == [done |-> FALSE, file |-> <<>>, err |-> ""]

\* parser.next
pnext(pm) ==
    Then(Scan(pm.m), LAMBDA r : [m |-> r.m, tok |-> r.tok, lit |-> r.lit, pos |-> r.pos])

\* parseImportSpec from `if p.tok != token.RBRACE` on: p3 looks at the token that
\* has to be the closing brace; [pm, spec]
parseImportClose(start, cmdTok, name, p3) ==
    IF p3.tok # Tok("RBRACE")
    THEN [pm |-> p3, spec |-> NilSpec]
    ELSE Then(pnext(p3),
              LAMBDA p4 : [pm |-> p4,
                           spec |-> [Token |-> cmdTok, Name |-> name, Path |-> <<>>,
                                     Pos_ |-> start, End_ |-> p3.pos + 1]])

\* parseImportSpec after the name p1 looks at was consumed: p2 looks at the token
\* after the name
parseImportNumber(start, cmdTok, p1, p2) ==
    IF p2.tok = NUMBER
    THEN Then(pnext(p2),
              LAMBDA p3 : parseImportClose(start, cmdTok, p1.lit \o p2.lit, p3))
    ELSE parseImportClose(start, cmdTok, p1.lit, p2)

\* parseImportSpec from `var name string` on: p1 looks at the token after the brace
parseImportName(start, cmdTok, p1) ==
    IF p1.tok = WORD \/ p1.tok = COMMAND
    THEN Then(pnext(p1), LAMBDA p2 : parseImportNumber(start, cmdTok, p1, p2))
    ELSE parseImportClose(start, cmdTok, <<>>, p1)

\* parseImportSpec taking an import without an opening brace for one without one
parseImportSpec_NeedsNoBrace(pm) ==
    Then(pnext(pm),
         LAMBDA p0 : IF p0.tok # Tok("LBRACE")
                     THEN parseImportName(pm.pos, pm.tok, p0)
                     ELSE Then(pnext(p0), LAMBDA p1 : parseImportName(pm.pos, pm.tok, p1)))

\* parser.parseImportSpec: [pm, spec]
parseImportSpec(pm) ==
    Then(pnext(pm),
         LAMBDA p0 : IF p0.tok # Tok("LBRACE")
                     THEN [pm |-> p0, spec |-> NilSpec]
                     ELSE Then(pnext(p0), LAMBDA p1 : parseImportName(pm.pos, pm.tok, p1)))

\* the parser of the state
Parser == [m |-> Machine, tok |-> prs.tok, lit |-> prs.lit, pos |-> prs.pos]

\* the state takes the parser pm
SetParser(pm, imports, result) ==
    /\ scn' = ScannerOf(pm.m)
    /\ fset' = [fset EXCEPT !.files[1] = pm.m.file]
    /\ prs' = [prs EXCEPT !.tok = pm.tok, !.lit = pm.lit, !.pos = pm.pos,
                          !.imports = imports, !.result = result]

\* Parse(fset, file, src, mode) is called: newParser makes the scanner without a
\* handler and reads the first token
InitParseOver(S, M) ==
    \E src \in S, mode \in M :
        \E s \in {ScanFileSet(src)} :
        \E pm \in {pnext([m |-> ScannerInit(s.files[1], src, FALSE)])} :
            /\ fset = [s EXCEPT !.files[1] = pm.m.file]
            /\ scn = ScannerOf(pm.m)
            /\ prs = [mode |-> mode, tok |-> pm.tok, lit |-> pm.lit, pos |-> pm.pos,
                      imports |-> <<>>, result |-> NoResult,
                      start |-> pm.pos, body |-> <<>>, text |-> <<>>]
            /\ errs = <<>>
            /\ toks = <<>>
            /\ last = NoCall
            /\ thr = [t \in Threads |-> Idle]
            /\ smu = RWFree
            /\ fmu = <<>>
            /\ wlk = NoWalk

InitParse == InitParseOver(ParseSources, Modes)

InImportsOnly == ~prs.result.done /\ prs.mode % 2 = 1

\* parseImportsOnly: a token that is no import is skipped
SkipTokenOp ==
    /\ InImportsOnly
    /\ prs.tok # EOF /\ prs.tok # Tok("IMPORT")
    /\ \E pm \in {pnext(Parser)} : SetParser(pm, prs.imports, prs.result)
    /\ UNCHANGED notParse

\* parseImportsOnly: at an import parseImportSpec is called and what it returns
\* is appended unless it is nil
ImportSpecOp ==
    /\ InImportsOnly
    /\ prs.tok = Tok("IMPORT")
    /\ \E r \in {parseImportSpec(Parser)} :
           SetParser(r.pm,
                     IF r.spec # NilSpec THEN Append(prs.imports, r.spec) ELSE prs.imports,
                     prs.result)
    /\ UNCHANGED notParse

\* parseImportsOnly: at EOF the File is returned, with no error
FinishImportsOp ==
    /\ InImportsOnly
    /\ prs.tok = EOF
    /\ prs' = [prs EXCEPT !.result =
                   [done |-> TRUE,
                    file |-> [Filename |-> fset.files[1].name, Imports |-> prs.imports,
                              Body |-> <<>>, Pos_ |-> fset.files[1].base, End_ |-> prs.pos],
                    err |-> ""]]
    /\ UNCHANGED <<fset, scn, notParse>>

\* Parse with a mode that has neither bit: nil and an error
UnsupportedModeOp ==
    /\ ~prs.result.done
    /\ prs.mode % 2 = 0 /\ (prs.mode \div 2) % 2 = 0
    /\ prs' = [prs EXCEPT !.result =
                   [done |-> TRUE, file |-> <<>>, err |-> "unsupported parse mode"]]
    /\ UNCHANGED <<fset, scn, notParse>>

NextParse == SkipTokenOp \/ ImportSpecOp \/ FinishImportsOp \/ UnsupportedModeOp

SpecParse == InitParse /\ [][NextParse]_vars

-----------------------------------------------------------------------------
(* The parser in full mode, one turn of the loop of parseFull or of parseText per
   step.  prs.start is p.pos as parseFull finds it, prs.body the nodes collected
   so far, and prs.text is <<>> outside parseText and <<[start, content]>> inside
   it.  An ast node is a record [kind, Pos_, End_] with Lit, Kind or Content where
   the struct has them. *)

\* the sources of the parser in full mode are made of at most this many fragments
MaxFullFrags == 3

\* the fragments: a space newline backslash newline(the word) % $
FullFragments ==
    {<<97>>, <<32>>, <<10>>, <<92>>, <<110, 101, 119, 108, 105, 110, 101>>, <<37>>, <<36>>}

\* sources with more fragments: paragraphs of words with a blank line and with
\* single newlines between them, forced line breaks, comment lines, imports
FullExamples ==
    {
        \* a a<NL><NL>a a<NL>
        <<97, 32, 97, 10, 10, 97, 32, 97, 10>>,
        \* a a<NL>a<NL><NL>
        <<97, 32, 97, 10, 97, 10, 10>>,
        \* a a \\<NL>a \\<NL>a<NL>
        <<97, 32, 97, 32, 92, 92, 10, 97, 32, 92, 92, 10, 97, 10>>,
        \* a\newline a
        <<97, 92, 110, 101, 119, 108, 105, 110, 101, 32, 97>>,
        \* %a<NL>%a<NL><NL>a<NL>
        <<37, 97, 10, 37, 97, 10, 10, 97, 10>>,
        \* a\$a a
        <<97, 92, 36, 97, 32, 97>>,
        \* \import{a}<NL>a
        <<92, 105, 109, 112, 111, 114, 116, 123, 97, 125, 10, 97>>,
        \* \import{a1}\import{
        <<92, 105, 109, 112, 111, 114, 116, 123, 97, 49, 125, 92, 105, 109, 112, 111, 114, 116, 123>>
    }

FullSources ==
    {Concat(ss) : ss \in UNION {SeqsOfLen(FullFragments, n) : n \in 0..MaxFullFrags}}
        \cup FullExamples

\* the values of Mode with bits other than the two defined ones clear
ParseFull == 2
AllModes == 0..3

\* "newline", the literal parseFull and parseText compare a COMMAND with
NewlineName == <<110, 101, 119, 108, 105, 110, 101>>

\* &ast.Word{...}, &ast.Newline{...}, &ast.LineBreak{...} of parseText and
\* &ast.Comment{...} of parseComment, made of the token pm looks at
WordNode(pm) ==
    [kind |-> "Word", Lit |-> pm.lit, Pos_ |-> pm.pos, End_ |-> pm.pos + Len(pm.lit)]

NewlineNode(pm) == [kind |-> "Newline", Pos_ |-> pm.pos, End_ |-> pm.pos + 1]

LineBreakNode(pm) ==
    [kind |-> "LineBreak", Kind |-> NewlineName, Pos_ |-> pm.pos,
     End_ |-> pm.pos + Len(pm.lit)]

CommentNode(pm) ==
    [kind |-> "Comment", Lit |-> pm.lit, Pos_ |-> pm.pos, End_ |-> pm.pos + Len(pm.lit)]

\* the tokens parseFull hands to parseText and parseText makes a node of
IsTextToken(pm) ==
    pm.tok = WORD \/ pm.tok = NEWLINE \/ (pm.tok = COMMAND /\ pm.lit = NewlineName)

\* the node parseText makes of a text token
TextNode(pm) ==
    IF pm.tok = WORD THEN WordNode(pm)
    ELSE IF pm.tok = NEWLINE THEN NewlineNode(pm)
    ELSE LineBreakNode(pm)

\* the state takes the parser pm with the nodes body and the open TextBlock text
SetFull(pm, body, text) ==
    /\ scn' = ScannerOf(pm.m)
    /\ fset' = [fset EXCEPT !.files[1] = pm.m.file]
    /\ prs' = [prs EXCEPT !.tok = pm.tok, !.lit = pm.lit, !.pos = pm.pos,
                          !.body = body, !.text = text]

InitFull == InitParseOver(FullSources, AllModes)

\* Parse looking at the ParseFull bit first
InFull_BeforeImportsOnly == ~prs.result.done /\ (prs.mode \div 2) % 2 = 1

\* Parse took the case of parseFull and parseFull has not returned
InFull == ~prs.result.done /\ prs.mode % 2 = 0 /\ (prs.mode \div 2) % 2 = 1

\* parseFull at a COMMENT: parseComment, and the NEWLINE after it becomes a
\* Newline of the Body
FullCommentOp ==
    /\ InFull /\ prs.text = <<>>
    /\ prs.tok = COMMENT
    /\ \E p1 \in {pnext(Parser)} :
           IF p1.tok = NEWLINE
           THEN \E p2 \in {pnext(p1)} :
                    SetFull(p2, prs.body \o <<CommentNode(Parser), NewlineNode(p1)>>, <<>>)
           ELSE SetFull(p1, Append(prs.body, CommentNode(Parser)), <<>>)
    /\ UNCHANGED notParse

\* parseFull at a text token: parseText is called
FullTextOp ==
    /\ InFull /\ prs.text = <<>>
    /\ prs.tok # EOF /\ IsTextToken(Parser)
    /\ prs' = [prs EXCEPT !.text = <<[start |-> prs.pos, content |-> <<>>]>>]
    /\ UNCHANGED <<fset, scn, notParse>>

\* parseFull at any other token: it is skipped
FullSkipOp ==
    /\ InFull /\ prs.text = <<>>
    /\ prs.tok # EOF /\ prs.tok # COMMENT /\ ~IsTextToken(Parser)
    /\ \E pm \in {pnext(Parser)} : SetFull(pm, prs.body, <<>>)
    /\ UNCHANGED notParse

\* parseText at a text token: its node is appended and the token consumed
TextNodeOp ==
    /\ InFull /\ prs.text # <<>>
    /\ prs.tok # EOF /\ IsTextToken(Parser)
    /\ \E pm \in {pnext(Parser)} :
           SetFull(pm, prs.body,
                   <<[prs.text[1] EXCEPT !.content = Append(@, TextNode(Parser))]>>)
    /\ UNCHANGED notParse

\* parseText at EOF or at a token that is no text: the TextBlock is returned and
\* parseFull appends it
TextEndOp ==
    /\ InFull /\ prs.text # <<>>
    /\ prs.tok = EOF \/ ~IsTextToken(Parser)
    /\ prs' = [prs EXCEPT
                 !.body = Append(@, [kind |-> "TextBlock", Content |-> prs.text[1].content,
                                     Pos_ |-> prs.text[1].start, End_ |-> prs.pos]),
                 !.text = <<>>]
    /\ UNCHANGED <<fset, scn, notParse>>

\* parseFull at EOF: the File is returned, with no error
FinishFullOp ==
    /\ InFull /\ prs.text = <<>>
    /\ prs.tok = EOF
    /\ prs' = [prs EXCEPT !.result =
                   [done |-> TRUE,
                    file |-> [Filename |-> fset.files[1].name, Imports |-> <<>>,
                              Body |-> prs.body, Pos_ |-> prs.start, End_ |-> prs.pos],
                    err |-> ""]]
    /\ UNCHANGED <<fset, scn, notParse>>

NextFull ==
    \/ SkipTokenOp \/ ImportSpecOp \/ FinishImportsOp \/ UnsupportedModeOp
    \/ FullCommentOp \/ FullTextOp \/ FullSkipOp \/ TextNodeOp \/ TextEndOp \/ FinishFullOp

SpecFull == InitFull /\ [][NextFull]_vars

\* Parse is one sequential call: a turn of a loop that can be taken is taken
SpecFullLive == InitFull /\ [][NextFull]_vars /\ WF_vars(NextFull)

-----------------------------------------------------------------------------
(* Reference definitions the claims are stated with *)

Files == fset.files

\* the Files whose closed range [base, base+size] holds p
FilesHolding(p) ==
    {h \in 1..Len(Files) : Files[h].base <= p /\ p <= Files[h].base + Files[h].size}

\* the number of registered line starts that are <= o
RefLine(f, o) == Cardinality({i \in 1..Len(f.lines) : f.lines[i] <= o})

\* the Position-Info a linear scan of the line table gives for offset o of f
RefPosition(f, o) ==
    [Filename |-> f.name, Offset |-> o, Line |-> RefLine(f, o),
     Column |-> o - f.lines[RefLine(f, o)] + 1]

-----------------------------------------------------------------------------
(* C1: FileSet.Position(Pos(base+o)) for an offset o in [0, size) of a File is
   {the File's name, o, line, column} with line the number of registered line
   starts <= o and column = o - (start of that line) + 1, both 1-based. *)
C1_PositionIsLineScan ==
    last.op = "Position" =>
        \A h \in 1..Len(Files) :
            LET f == Files[h]
                o == last.arg[1] - f.base
            IN  (0 <= o /\ o < f.size) => last.ret = RefPosition(f, o)

-----------------------------------------------------------------------------
(* C4: the stored Files are in strictly increasing base order, each next base is
   >= the previous base+size+1, every base is >= 1, the cursor is >= the last
   base+size+1, and no call (failing AddFile included) removes or reorders a File. *)
C4_Ordered ==
    /\ \A h \in 1..Len(Files) : Files[h].base >= 1 /\ Files[h].size >= 0
    /\ \A h \in 1..(Len(Files) - 1) :
        /\ Files[h].base < Files[h + 1].base
        /\ Files[h + 1].base >= Files[h].base + Files[h].size + 1
    /\ fset.base >= 1
    /\ Len(Files) > 0 => fset.base >= Files[Len(Files)].base + Files[Len(Files)].size + 1

C4_AppendOnly ==
    /\ Len(fset'.files) >= Len(fset.files)
    /\ \A h \in 1..Len(fset.files) :
        /\ fset'.files[h].name = fset.files[h].name
        /\ fset'.files[h].base = fset.files[h].base
        /\ fset'.files[h].size = fset.files[h].size

C4_FilesOrderedAppendOnly == [](C4_Ordered) /\ [][C4_AppendOnly]_vars

\* two Files with a gap between them, and the call just made was a failing AddFile
C4_Witness ==
    /\ Len(Files) = 2
    /\ Files[2].base > Files[1].base + Files[1].size + 1
    /\ last.op = "AddFile" /\ last.panicked

-----------------------------------------------------------------------------
(* C5: a new FileSet has Base() = 1; a successful AddFile(name, base, size)
   returns a File with that name, base and size and the line table <<0>>, appends
   it as the last File and sets the cursor to base+size+1; Base() never decreases. *)
C5_AddFileStep ==
    (last'.op = "AddFile" /\ ~last'.panicked) =>
        LET a == last'.arg
            h == last'.ret
        IN  /\ h = Len(fset.files) + 1
            /\ Len(fset'.files) = h
            /\ SubSeq(fset'.files, 1, h - 1) = fset.files
            /\ fset'.files[h] = [name |-> a[1], base |-> a[2], size |-> a[3],
                                 lines |-> <<0>>]
            /\ FileSetBase(fset') = a[2] + a[3] + 1

C5_NewFileSetAndAddFile ==
    /\ FileSetBase(NewFileSet) = 1
    /\ [](last.op = "none" => fset = NewFileSet)
    /\ [][C5_AddFileStep /\ FileSetBase(fset') >= FileSetBase(fset)]_vars

\* a second File was just registered above the cursor
C5_Witness ==
    /\ last.op = "AddFile" /\ ~last.panicked
    /\ last.ret = 2
    /\ Files[2].base > Files[1].base + Files[1].size + 1
    /\ Files[2].size > 0

-----------------------------------------------------------------------------
(* C6: AddFile(name, base, size) panics exactly when base < Base(), or size < 0,
   or base+size+1 exceeds the largest integer; otherwise it succeeds. *)
C6_PanicStep ==
    last'.op = "AddFile" =>
        LET base == last'.arg[2]
            size == last'.arg[3]
        IN  /\ last'.panicked <=>
                (base < FileSetBase(fset) \/ size < 0 \/ base + size + 1 > MaxInt)
            /\ last'.panicked <=> (last'.ret = NilFile)

C6_AddFilePanicsExactly == [][C6_PanicStep]_vars

\* an AddFile that failed on the overflow alone
C6_Witness ==
    /\ last.op = "AddFile" /\ last.panicked
    /\ last.arg[2] >= fset.base /\ last.arg[3] >= 0
    /\ last.arg[2] + last.arg[3] + 1 > MaxInt

-----------------------------------------------------------------------------
(* C7: FileSet.File(pos) is the one File with base <= pos <= base+size when there
   is one and nil otherwise: nil for NoPos, for a pos in a gap, on an empty set,
   beyond the last File's end, and for pos = Base(). *)
C7_FileLookup ==
    last.op = "File" =>
        LET p == last.arg[1]
        IN  /\ Cardinality(FilesHolding(p)) <= 1
            /\ FilesHolding(p) # {} => FilesHolding(p) = {last.ret}
            /\ FilesHolding(p) = {} => last.ret = NilFile
            /\ p = NoPos => last.ret = NilFile
            /\ Len(Files) = 0 => last.ret = NilFile
            /\ p = FileSetBase(fset) => last.ret = NilFile
            /\ (Len(Files) > 0 /\ p > Files[Len(Files)].base + Files[Len(Files)].size)
                 => last.ret = NilFile

\* a lookup of a coordinate in the gap between two Files
C7_Witness ==
    /\ last.op = "File"
    /\ Len(Files) >= 2
    /\ Files[1].base + Files[1].size < last.arg[1]
    /\ last.arg[1] < Files[2].base
    /\ last.ret = NilFile

-----------------------------------------------------------------------------
(* C8: for Files A, B registered back-to-back the end coordinate of A resolves to
   A and the base of B to B; the start, middle and end coordinate of every File
   resolve to that File, also for a File of size 0. *)
C8_StartMidEnd ==
    last.op = "File" =>
        \A h \in 1..Len(Files) :
            LET f == Files[h]
            IN  last.arg[1] \in {f.base, f.base + (f.size \div 2), f.base + f.size}
                    => last.ret = h

\* the end coordinate of A was looked up, B starts right after it
C8_Witness ==
    /\ last.op = "File"
    /\ Len(Files) >= 2
    /\ Files[1].size > 0
    /\ Files[2].base = Files[1].base + Files[1].size + 1
    /\ last.arg[1] = Files[1].base + Files[1].size
    /\ last.ret = 1

-----------------------------------------------------------------------------
(* C9: every line table is strictly increasing, starts with 0 and holds only
   offsets < size after it; AddLine with an offset <= the last entry or >= size
   changes nothing, an accepted call appends exactly that offset; LineCount() is
   the length of the table. *)
C9_Table ==
    /\ \A h \in 1..Len(Files) :
        LET ls == Files[h].lines
        IN  /\ Len(ls) >= 1 /\ ls[1] = 0
            /\ \A i \in 2..Len(ls) : ls[i - 1] < ls[i] /\ ls[i] < Files[h].size
    /\ last.op = "LineCount" => last.ret = Len(Files[last.arg[1]].lines)

C9_AddLineStep ==
    last'.op = "AddLine" =>
        LET h   == last'.arg[1]
            off == last'.arg[2]
            f   == fset.files[h]
        IN  /\ \A g \in 1..Len(fset.files) : g # h => fset'.files[g] = fset.files[g]
            /\ Len(fset'.files) = Len(fset.files) /\ fset'.base = fset.base
            /\ IF off <= f.lines[Len(f.lines)] \/ off >= f.size
               THEN fset'.files[h] = f
               ELSE fset'.files[h] = [f EXCEPT !.lines = Append(f.lines, off)]

C9_LineTable == [](C9_Table) /\ [][C9_AddLineStep]_vars

\* AddLine was just called out of order, with an offset below the last entry
C9_Witness ==
    /\ last.op = "AddLine"
    /\ LET ls == Files[last.arg[1]].lines
       IN  Len(ls) >= 3 /\ 0 < last.arg[2] /\ last.arg[2] < ls[Len(ls)]

-----------------------------------------------------------------------------
(* C2: on one File, a read of the line table by position resolution
   (FileSet.Position, File.Position) or by LineCount never overlaps an AddLine on
   that File. *)

\* t is between its first and its last read of the line table of File h
ReadsTable(t, h) ==
    \/ At(t, "P_scan") /\ thr[t].f = h
    \/ At(t, "LC_read") /\ thr[t].a[1] = h

\* t is inside AddLine on File h, between reading the last entry and the append
InAddLine(t, h) == thr[t].pc \in {"AL_check", "AL_append"} /\ thr[t].a[1] = h

C2_TableAccessExclusive ==
    \A h \in 1..Len(Files) : \A t1, t2 \in Threads :
        t1 # t2 => ~(ReadsTable(t1, h) /\ InAddLine(t2, h))

-----------------------------------------------------------------------------
(* C3: an AddFile excludes every other AddFile and every lookup (Base, File,
   Position) of the file list and cursor; a lookup never sees the cursor advanced
   without the File appended, and what it read is the state of the set while it
   holds the lock. Lookups may overlap each other. *)

HoldsLock(t) == thr[t].pc \in {"A_check", "A_setbase", "A_append", "A_unlock", "A_panic"}

HoldsRLock(t) == thr[t].pc \in {"B_read", "B_runlock", "S_search", "S_runlock"}

\* the cursor is the one NewFileSet or the last successful AddFile left
CursorConsistent ==
    IF Len(Files) = 0
    THEN fset.base = 1
    ELSE fset.base = Files[Len(Files)].base + Files[Len(Files)].size + 1

C3_FileSetLocking ==
    /\ Cardinality({t \in Threads : HoldsLock(t)}) <= 1
    /\ (\E t \in Threads : HoldsLock(t)) => ~(\E u \in Threads : HoldsRLock(u))
    /\ (\E t \in Threads : HoldsRLock(t)) => CursorConsistent
    /\ \A t \in Threads : At(t, "B_runlock") => thr[t].n = FileSetBase(fset)
    /\ \A t \in Threads : At(t, "S_runlock") => thr[t].f = FileSetFile(fset, thr[t].a[1])

\* two lookups hold the read lock at once, on a set with a File
C3_Witness ==
    /\ Len(Files) >= 1
    /\ \E t1, t2 \in Threads : t1 # t2 /\ At(t1, "S_search") /\ At(t2, "B_runlock")

-----------------------------------------------------------------------------
(* C10: once Scan has returned EOF, every later Scan returns the same triple
   (file base + len(src), EOF, "EOF") and changes neither the scanner's cursor,
   nor the File's line table, nor what the error handler was told. *)

EOFTriple ==
    [pos |-> Files[1].base + Len(scn.src), tok |-> EOF, lit |-> <<69, 79, 70>>]

C10_AfterEOF ==
    \A i \in 1..Len(toks) :
        toks[i].tok = EOF => \A j \in i..Len(toks) : toks[j] = EOFTriple

C10_EOFStep ==
    (Len(toks) > 0 /\ toks[Len(toks)].tok = EOF) =>
        /\ scn' = scn
        /\ fset' = fset
        /\ errs' = errs
        /\ toks' = Append(toks, EOFTriple)

C10_EOFForever == [](C10_AfterEOF) /\ [][C10_EOFStep]_vars

\* a word and a newline were scanned, EOF was returned, and Scan was called again
C10_Witness ==
    /\ Len(toks) >= 4
    /\ toks[1].tok = WORD
    /\ toks[Len(toks) - 2].tok = NEWLINE
    /\ toks[Len(toks) - 1].tok = EOF
    /\ toks[Len(toks)].tok = EOF

-----------------------------------------------------------------------------
(* Reference definitions for the scanner's claims *)

\* the File the scanner writes to
ScanFile == Files[1]

\* the source byte at offset o (0-based), 0 outside the source
ByteAt(o) == IF 0 <= o /\ o < Len(scn.src) THEN scn.src[o + 1] ELSE 0

\* the offset the i-th returned token was reported at
TokOff(i) == toks[i].pos - ScanFile.base

-----------------------------------------------------------------------------
(* C11: the positions returned by successive Scan calls on one File are strictly
   increasing over the non-EOF tokens, and the EOF position is >= every token
   position. *)
C11_PositionsIncrease ==
    \A i, j \in 1..Len(toks) :
        (i < j /\ toks[i].tok # EOF) =>
            IF toks[j].tok = EOF
            THEN toks[i].pos <= toks[j].pos
            ELSE toks[i].pos < toks[j].pos

-----------------------------------------------------------------------------
(* C12: repeated Scan calls eventually return EOF: every Scan that returns a
   non-EOF token leaves the read cursor strictly further into the source than
   it found it, so at most len(src) non-EOF tokens are returned and the call
   number len(src)+1 at the latest returns EOF. *)

\* the read cursor of scanner s: the reading offset, with the read of the end of
\* input counted as one more step (next() leaves rdOffset where it is there)
ReadCursor(s) ==
    IF s.ch = eof THEN Len(s.src) + 1
    ELSE IF s.rdOffset > Len(s.src) THEN Len(s.src)
    ELSE s.rdOffset

C12_Progress ==
    (Len(toks') = Len(toks) + 1 /\ toks'[Len(toks')].tok # EOF) =>
        ReadCursor(scn') > ReadCursor(scn)

C12_Bound ==
    /\ Cardinality({i \in 1..Len(toks) : toks[i].tok # EOF}) <= Len(scn.src)
    /\ Len(toks) > Len(scn.src) => toks[Len(scn.src) + 1].tok = EOF

C12_EOFReturned == \E i \in 1..Len(toks) : toks[i].tok = EOF

C12_ScanTerminates ==
    /\ [](C12_Bound)
    /\ [][C12_Progress]_vars
    /\ <>(C12_EOFReturned)

\* a source with an escaped symbol at the start of a token was scanned: as many
\* tokens as it has bytes, then EOF
C12_Witness ==
    /\ Len(scn.src) = 3
    /\ Len(toks) = 4
    /\ \A i \in 1..3 : toks[i].tok # EOF
    /\ toks[4].tok = EOF
    /\ \E i \in 1..3 : toks[i].tok = WORD /\ toks[i].lit = <<>>

-----------------------------------------------------------------------------
(* C13: a run of spaces and tabs produces no token, and every token's Pos is
   the file base plus the offset of the token's first source byte: the first
   non-space byte, which is the backslash for a command or an escaped symbol,
   the '%' of a comment, the newline, a digit, a letter, or the symbol itself. *)
C13_PosIsFirstByte ==
    \A i \in 1..Len(toks) :
        LET tok == toks[i].tok
            b   == ByteAt(TokOff(i))
        IN  IF tok = EOF
            THEN TokOff(i) = Len(scn.src)
            ELSE /\ 0 <= TokOff(i) /\ TokOff(i) < Len(scn.src)
                 /\ ~isSpaceChar(b)
                 /\ tok = WORD => (isLetter(b) \/ b = 92 \/ b >= RuneSelf)
                 /\ (tok = COMMAND \/ IsKeyword(tok)) => b = 92
                 /\ tok = NEWLINE => b = 10
                 /\ tok = COMMENT => b = 37
                 /\ tok = NUMBER => isDigit(b)
                 /\ tok \in SymbolToks => TokenString(tok) = <<b>>

-----------------------------------------------------------------------------
(* C14: when Scan starts at '%' it returns one COMMENT token whose literal is
   the source from that '%' up to, not including, the next newline or the end
   of input; the newline is not consumed and the next Scan returns it as
   NEWLINE.  "% comment\n\section{Hello}\n" scans as COMMENT("% comment"),
   NEWLINE, COMMAND("section"), LBRACE, WORD("Hello"), RBRACE, NEWLINE, EOF. *)

\* the scanner as Scan finds it once the leading blanks are skipped
AfterBlanks == skipWhitespace(Machine)

\* the offset of the rune the scanner holds in ch, for a rune of one byte
ChOffset(m) == IF m.ch = eof THEN Len(m.src) ELSE m.rdOffset - 1

\* the offset of the first newline at or after offset p, len(src) if there is none
LineEnd(p) ==
    LET S == {e \in p..Len(scn.src) : e = Len(scn.src) \/ ByteAt(e) = 10}
    IN  CHOOSE e \in S : \A x \in S : e <= x

CommentExample ==
    <<37, 32, 99, 111, 109, 109, 101, 110, 116, 10, 92, 115, 101, 99, 116, 105, 111, 110, 123, 72, 101, 108, 108, 111, 125, 10>>

CommentExampleTokens ==
    << [tok |-> COMMENT, lit |-> <<37, 32, 99, 111, 109, 109, 101, 110, 116>>],
       [tok |-> NEWLINE, lit |-> <<10>>],
       [tok |-> COMMAND, lit |-> <<115, 101, 99, 116, 105, 111, 110>>],
       [tok |-> Tok("LBRACE"), lit |-> <<123>>],
       [tok |-> WORD, lit |-> <<72, 101, 108, 108, 111>>],
       [tok |-> Tok("RBRACE"), lit |-> <<125>>],
       [tok |-> NEWLINE, lit |-> <<10>>],
       [tok |-> EOF, lit |-> <<69, 79, 70>>] >>

C14_CommentStep ==
    /\ (Len(toks') = Len(toks) + 1 /\ AfterBlanks.ch = 37) =>
          LET p == ChOffset(AfterBlanks)
              t == toks'[Len(toks')]
          IN  /\ t.tok = COMMENT
              /\ t.lit = Slice(scn.src, p, LineEnd(p))
              /\ scn'.offset = LineEnd(p)
              /\ scn'.ch = (IF LineEnd(p) = Len(scn.src) THEN eof ELSE 10)
    /\ (Len(toks') = Len(toks) + 1 /\ Len(toks) > 0 /\ toks[Len(toks)].tok = COMMENT
          /\ scn.ch = 10) => toks'[Len(toks')].tok = NEWLINE

C14_Example ==
    (scn.src = CommentExample /\ Len(toks) >= 8) =>
        \A i \in 1..8 : /\ toks[i].tok = CommentExampleTokens[i].tok
                        /\ toks[i].lit = CommentExampleTokens[i].lit

C14_Comment == [](C14_Example) /\ [][C14_CommentStep]_vars

-----------------------------------------------------------------------------
(* C15: each newline not preceded by a backslash is returned as its own NEWLINE
   token, and for every newline at offset k with k+1 < size (a NEWLINE token, the
   end of a comment or the second byte of a backslash-newline continuation) the
   offset k+1 is in the File's line table once the scanner is past it; after
   scanning to EOF all of them are.  C15_NewlinesRegistered states this of every
   source; C15_NewlinesRegisteredUTF8 states it of the sources that do not begin
   with a UTF-16 byte order mark, which next() consumes whole at the first read. *)

\* the source begins with FF FE or FE FF
UTF16Source ==
    /\ Len(scn.src) >= 2
    /\ \/ scn.src[1] = 255 /\ scn.src[2] = 254
       \/ scn.src[1] = 254 /\ scn.src[2] = 255

\* the offsets of the newlines the scanner is past
NewlinesPassed == {k \in 0..(Len(scn.src) - 1) : ByteAt(k) = 10 /\ k < scn.offset}

LineStarts == {ScanFile.lines[i] : i \in 1..Len(ScanFile.lines)}

C15_NewlinesRegistered ==
    /\ \A k \in NewlinesPassed :
        /\ k + 1 < ScanFile.size => k + 1 \in LineStarts
        /\ (k = 0 \/ ByteAt(k - 1) # 92) =>
              \E i \in 1..Len(toks) :
                  toks[i] = [pos |-> ScanFile.base + k, tok |-> NEWLINE, lit |-> <<10>>]
    /\ (Len(toks) > 0 /\ toks[Len(toks)].tok = EOF) =>
          NewlinesPassed = {k \in 0..(Len(scn.src) - 1) : ByteAt(k) = 10}

C15_NewlinesRegisteredUTF8 == UTF16Source \/ C15_NewlinesRegistered

\* a newline token and a backslash-newline continuation were scanned, up to EOF
C15_Witness ==
    /\ Len(toks) > 0 /\ toks[Len(toks)].tok = EOF
    /\ ScanFile.lines = <<0, 1, 3>>
    /\ ByteAt(0) = 10 /\ ByteAt(1) = 92 /\ ByteAt(2) = 10
    /\ \E i \in 1..Len(toks) : toks[i].tok = WORD

-----------------------------------------------------------------------------
(* C16: a backslash at the start of a token followed by a command-name character
   yields exactly one token covering the maximal run of command-name characters;
   its tag is IMPORT for "import", ENV for "begin", ENVEND for "end" and COMMAND
   for every other name; its literal is the name without the backslash (as
   stated), except that the name "newline" has the literal "linebreak" (as the
   code does and as amended); IsKeyword holds for exactly the three keyword tags. *)

ImportName == <<105, 109, 112, 111, 114, 116>>
BeginName == <<98, 101, 103, 105, 110>>
EndName == <<101, 110, 100>>
LinebreakName == <<108, 105, 110, 101, 98, 114, 101, 97, 107>>

\* the tag the catalog promises for a command name
RefKeyword(name) ==
    CASE name = ImportName -> Tok("IMPORT")
      [] name = BeginName  -> Tok("ENV")
      [] name = EndName    -> Tok("ENVEND")
      [] OTHER             -> COMMAND

\* the end of the run of command-name characters that starts at offset p
RunEnd(p) ==
    LET S == {e \in p..Len(scn.src) : e = Len(scn.src) \/ ~isCommandChar(ByteAt(e))}
    IN  CHOOSE e \in S : \A x \in S : e <= x

\* names the lookup is tried with besides the ones scanned
SomeNames ==
    {ImportName, BeginName, EndName, NewlineName, LinebreakName, <<>>, <<97>>,
     SubSeq(ImportName, 1, 5), ImportName \o <<115>>, <<73>> \o SubSeq(ImportName, 2, 6),
     EndName \o <<64>>}

C16_Keywords ==
    /\ \A name \in SomeNames :
        /\ LookupKeyword(name) = RefKeyword(name)
        /\ IsKeyword(LookupKeyword(name)) <=> name \in {ImportName, BeginName, EndName}
    /\ \A tok \in 0..(Len(tokens) - 1) :
        IsKeyword(tok) <=> tok \in {Tok("IMPORT"), Tok("ENV"), Tok("ENVEND")}

\* one Scan that starts at a backslash followed by a command-name character;
\* normalized says whether the name "newline" is returned as "linebreak"
C16_CommandStep(normalized) ==
    (/\ Len(toks') = Len(toks) + 1
     /\ AfterBlanks.ch = 92
     /\ isCommandChar(ByteAt(ChOffset(AfterBlanks) + 1))) =>
        LET p    == ChOffset(AfterBlanks)
            name == Slice(scn.src, p + 1, RunEnd(p + 1))
            t    == toks'[Len(toks')]
        IN  /\ t.tok = RefKeyword(name)
            /\ t.lit = (IF normalized /\ name = NewlineName THEN LinebreakName ELSE name)
            /\ scn'.offset = RunEnd(p + 1)

\* the claim as stated: the literal is always the collected name
C16_CommandLiteralIsName == [](C16_Keywords) /\ [][C16_CommandStep(FALSE)]_vars

\* the claim as amended: "newline" is returned with the literal "linebreak"
C16_CommandToken == [](C16_Keywords) /\ [][C16_CommandStep(TRUE)]_vars

\* \import was scanned as the one token IMPORT("import"), EOF follows
C16_Witness ==
    /\ scn.src = <<92>> \o ImportName
    /\ Len(toks) = 2
    /\ toks[1] = [pos |-> ScanFile.base, tok |-> Tok("IMPORT"), lit |-> ImportName]
    /\ toks[2].tok = EOF

-----------------------------------------------------------------------------
(* C17: two backslashes at the start of a token are scanned as the one token
   COMMAND("linebreak"), positioned at the first backslash and consuming both,
   never as two tokens and never as BACKSLASH; the command name "newline" gives
   the same COMMAND("linebreak"). *)
C17_LinebreakStep ==
    (Len(toks') = Len(toks) + 1 /\ AfterBlanks.ch = 92) =>
        LET p == ChOffset(AfterBlanks)
            t == toks'[Len(toks')]
        IN  /\ ByteAt(p + 1) = 92 =>
                /\ t = [pos |-> ScanFile.base + p, tok |-> COMMAND, lit |-> LinebreakName]
                /\ scn'.offset = p + 2
                /\ scn'.ch = (IF p + 2 >= Len(scn.src) THEN eof
                              ELSE IF ByteAt(p + 2) < RuneSelf THEN ByteAt(p + 2)
                              ELSE RuneError)
            /\ (isCommandChar(ByteAt(p + 1))
                  /\ Slice(scn.src, p + 1, RunEnd(p + 1)) = NewlineName) =>
                t = [pos |-> ScanFile.base + p, tok |-> COMMAND, lit |-> LinebreakName]

C17_NoBackslashToken == \A i \in 1..Len(toks) : toks[i].tok # Tok("BACKSLASH")

C17_ForcedLineBreak == [](C17_NoBackslashToken) /\ [][C17_LinebreakStep]_vars

\* "\\a" was scanned: the line break at the first backslash, then the word
C17_Witness ==
    /\ ByteAt(0) = 92 /\ ByteAt(1) = 92 /\ ByteAt(2) = 97
    /\ Len(toks) >= 2
    /\ toks[1] = [pos |-> ScanFile.base, tok |-> COMMAND, lit |-> LinebreakName]
    /\ toks[2].tok = WORD /\ toks[2].pos = ScanFile.base + 2

-----------------------------------------------------------------------------
(* C18: two backslashes that directly follow word characters end the word:
   a\\b scans as WORD("a"), COMMAND("linebreak"), WORD("b"), and the double
   backslash is never taken into the literal of the word. *)

\* the end of the run of letters and digits that starts at offset p
WordRunEnd(p) ==
    LET S == {e \in p..Len(scn.src) :
                e = Len(scn.src) \/ ~(isLetter(ByteAt(e)) \/ isDigit(ByteAt(e)))}
    IN  CHOOSE e \in S : \A x \in S : e <= x

C18_Example ==
    (scn.src = <<97, 92, 92, 98>> /\ Len(toks) >= 3) =>
        /\ toks[1] = [pos |-> ScanFile.base, tok |-> WORD, lit |-> <<97>>]
        /\ toks[2] = [pos |-> ScanFile.base + 1, tok |-> COMMAND, lit |-> LinebreakName]
        /\ toks[3] = [pos |-> ScanFile.base + 3, tok |-> WORD, lit |-> <<98>>]

C18_WordStep ==
    (/\ Len(toks') = Len(toks) + 1
     /\ isLetter(AfterBlanks.ch)
     /\ ByteAt(WordRunEnd(ChOffset(AfterBlanks))) = 92
     /\ ByteAt(WordRunEnd(ChOffset(AfterBlanks)) + 1) = 92) =>
        LET p == ChOffset(AfterBlanks)
            t == toks'[Len(toks')]
        IN  /\ t.tok = WORD
            /\ t.lit = Slice(scn.src, p, WordRunEnd(p))
            /\ scn'.offset = WordRunEnd(p)

C18_DoubleBackslashEndsWord == [](C18_Example) /\ [][C18_WordStep]_vars

-----------------------------------------------------------------------------
(* C19: when Scan starts at a backslash immediately followed by a registered
   symbol character c (not a backslash, not a command-name character) it returns
   one WORD token whose literal is the one-character string c; backslash and c
   are both consumed and the next Scan starts after c.  Stated for a c that no
   letter, digit or backslash follows, so that nothing can continue the word. *)
C19_EscapedSymbolStep ==
    (/\ Len(toks') = Len(toks) + 1
     /\ AfterBlanks.ch = 92
     /\ IsSymbol(ByteAt(ChOffset(AfterBlanks) + 1))
     /\ ByteAt(ChOffset(AfterBlanks) + 1) # 92
     /\ ~isCommandChar(ByteAt(ChOffset(AfterBlanks) + 1))
     /\ LET b == ByteAt(ChOffset(AfterBlanks) + 2)
        IN  ~(isLetter(b) \/ isDigit(b) \/ b = 92)) =>
        LET p == ChOffset(AfterBlanks)
            t == toks'[Len(toks')]
        IN  /\ t = [pos |-> ScanFile.base + p, tok |-> WORD, lit |-> <<ByteAt(p + 1)>>]
            /\ scn'.offset = p + 2

C19_EscapedSymbolIsWord == [][C19_EscapedSymbolStep]_vars

-----------------------------------------------------------------------------
(* C20: inside a word that started with a letter every backslash immediately
   followed by a registered symbol character is spliced into the word: the
   symbol, without the backslash, is appended to the literal and the word goes
   on.  foo\$bar scans as WORD("foo$bar"), a\_b as WORD("a_b"), hello\@world
   as WORD("hello@world"). *)

\* the word that starts at offset p: [lit, end], read off the source bytes
RECURSIVE RefWord(_, _)
RefWord(p, lit) ==
    IF isLetter(ByteAt(p)) \/ isDigit(ByteAt(p))
    THEN RefWord(p + 1, lit \o <<ByteAt(p)>>)
    ELSE IF ByteAt(p) = 92 /\ IsSymbol(ByteAt(p + 1))
    THEN RefWord(p + 2, lit \o <<ByteAt(p + 1)>>)
    ELSE [lit |-> lit, end |-> p]

EscapedWordsExample ==
    <<102, 111, 111, 92, 36, 98, 97, 114, 32, 97, 92, 95, 98, 32, 104, 101, 108, 108, 111, 92, 64, 119, 111, 114, 108, 100>>

C20_Example ==
    (scn.src = EscapedWordsExample /\ Len(toks) >= 4) =>
        /\ toks[1] = [pos |-> ScanFile.base, tok |-> WORD, lit |-> <<102, 111, 111, 36, 98, 97, 114>>]
        /\ toks[2] = [pos |-> ScanFile.base + 9, tok |-> WORD, lit |-> <<97, 95, 98>>]
        /\ toks[3] = [pos |-> ScanFile.base + 14, tok |-> WORD, lit |-> <<104, 101, 108, 108, 111, 64, 119, 111, 114, 108, 100>>]
        /\ toks[4].tok = EOF

C20_WordStep ==
    (Len(toks') = Len(toks) + 1 /\ isLetter(AfterBlanks.ch)) =>
        LET p == ChOffset(AfterBlanks)
            w == RefWord(p, <<>>)
            t == toks'[Len(toks')]
        IN  /\ t = [pos |-> ScanFile.base + p, tok |-> WORD, lit |-> w.lit]
            /\ scn'.offset = w.end

C20_EscapedSymbolSpliced == [](C20_Example) /\ [][C20_WordStep]_vars

\* a word with a spliced symbol in the middle was returned
C20_Witness ==
    /\ ByteAt(0) = 97 /\ ByteAt(1) = 92 /\ ByteAt(2) = 36 /\ ByteAt(3) = 97
    /\ Len(toks) = 2
    /\ toks[1] = [pos |-> ScanFile.base, tok |-> WORD, lit |-> <<97, 36, 97>>]
    /\ toks[2].tok = EOF

-----------------------------------------------------------------------------
(* C21: when Scan starts at a backslash immediately followed by a space or a
   tab, it consumes both characters and returns COMMAND with the literal
   "space"; this also holds when the backslash directly follows a word:
   word2\ word3 scans as WORD("word2"), COMMAND("space"), WORD("word3"). *)
SpaceName == <<115, 112, 97, 99, 101>>

ControlSpaceExample ==
    <<119, 111, 114, 100, 49, 92, 110, 101, 119, 108, 105, 110, 101, 32, 119, 111, 114, 100, 50, 92, 32, 119, 111, 114, 100, 51>>

\* word1\newline word2\ word3: the third to fifth tokens
C21_Example ==
    (scn.src = ControlSpaceExample /\ Len(toks) >= 5) =>
        /\ toks[3].tok = WORD /\ toks[3].lit = <<119, 111, 114, 100, 50>>
        /\ toks[4].tok = COMMAND /\ toks[4].lit = SpaceName
        /\ toks[5].tok = WORD /\ toks[5].lit = <<119, 111, 114, 100, 51>>

C21_SpaceStep ==
    (Len(toks') = Len(toks) + 1 /\ AfterBlanks.ch = 92) =>
        LET p == ChOffset(AfterBlanks)
            t == toks'[Len(toks')]
        IN  ByteAt(p + 1) \in {32, 9} =>
                /\ t.tok = COMMAND
                /\ t.lit = SpaceName
                /\ scn'.offset = p + 2
                /\ scn'.ch = (IF p + 2 >= Len(scn.src) THEN eof
                              ELSE IF ByteAt(p + 2) < RuneSelf THEN ByteAt(p + 2)
                              ELSE RuneError)

C21_ControlSpace == [](C21_Example) /\ [][C21_SpaceStep]_vars

\* a backslash and a tab were scanned as COMMAND("space"), the word after them next
C21_Witness ==
    /\ ByteAt(0) = 92 /\ ByteAt(1) = 9 /\ ByteAt(2) = 97
    /\ Len(toks) >= 2
    /\ toks[1].tok = COMMAND /\ toks[1].lit = SpaceName
    /\ toks[2].tok = WORD /\ toks[2].lit = <<97>>

-----------------------------------------------------------------------------
(* C22: a backslash immediately followed by a newline produces no token: both
   characters are consumed and the Scan call returns the token that follows
   them, with that token's own position, exactly as if the two characters had
   been whitespace; no NEWLINE, COMMAND or ILLEGAL is emitted for the pair. *)

\* the scanner m standing on two blanks where it has the two bytes at its offset
Blanked(m) ==
    [m EXCEPT !.src = [i \in 1..Len(m.src) |->
                          IF i \in {m.offset + 1, m.offset + 2} THEN 32 ELSE m.src[i]],
              !.ch = 32]

C22_ContinuationStep ==
    (Len(toks') = Len(toks) + 1 /\ AfterBlanks.ch = 92) =>
        LET p == ChOffset(AfterBlanks)
            t == toks'[Len(toks')]
        IN  ByteAt(p + 1) = 10 =>
                \E r \in {Scan(Blanked(AfterBlanks))} :
                    /\ t = [pos |-> r.pos, tok |-> r.tok, lit |-> r.lit]
                    /\ t.pos >= ScanFile.base + p + 2
                    /\ scn'.offset = r.m.offset
                    /\ scn'.rdOffset = r.m.rdOffset
                    /\ scn'.ch = r.m.ch

C22_LineContinuation == [][C22_ContinuationStep]_vars

\* "a", backslash, newline, "a": the second Scan returned the second word
C22_Witness ==
    /\ ByteAt(0) = 97 /\ ByteAt(1) = 92 /\ ByteAt(2) = 10 /\ ByteAt(3) = 97
    /\ Len(toks) = 3
    /\ toks[1] = [pos |-> ScanFile.base, tok |-> WORD, lit |-> <<97>>]
    /\ toks[2] = [pos |-> ScanFile.base + 3, tok |-> WORD, lit |-> <<97>>]
    /\ toks[3].tok = EOF

-----------------------------------------------------------------------------
(* C23: when a backslash is followed by anything that is no command-name
   character, registered symbol, space, tab or newline (a digit, an unrecognized
   rune, the end of input), Scan returns ILLEGAL whose literal is the offending
   rune, and the error handler is invoked with that rune's position. *)

\* the rune at offset o for a source of one-byte runes, eof at the end of input
RuneAt(o) == IF o >= Len(scn.src) THEN eof ELSE ByteAt(o)

C23_IllegalEscapeStep ==
    (Len(toks') = Len(toks) + 1 /\ AfterBlanks.ch = 92) =>
        LET p == ChOffset(AfterBlanks)
            c == RuneAt(p + 1)
            t == toks'[Len(toks')]
        IN  (/\ c < RuneSelf
             /\ ~isCommandChar(c) /\ ~IsSymbol(c) /\ c \notin {32, 9, 10}) =>
                /\ t.tok = ILLEGAL
                /\ t.lit = EncodeRune(c)
                /\ scn.handler =>
                      /\ Len(errs') = Len(errs) + 1
                      /\ errs'[Len(errs')].pos = RefPosition(ScanFile, p + 1)

C23_IllegalEscape == [][C23_IllegalEscapeStep]_vars

-----------------------------------------------------------------------------
(* C24: when Scan starts at a decimal digit it returns one NUMBER token whose
   literal is the maximal run of consecutive digits from that position, and it
   stops at the first non-digit: 45.67 scans as NUMBER("45"), PERIOD("."),
   NUMBER("67") and 5cm as NUMBER("5"), WORD("cm"). *)

\* the offset of the first byte at or after p that is no digit, len(src) if none
DigitRunEnd(p) ==
    LET S == {e \in p..Len(scn.src) : e = Len(scn.src) \/ ~(48 <= ByteAt(e) /\ ByteAt(e) <= 57)}
    IN  CHOOSE e \in S : \A x \in S : e <= x

C24_Examples ==
    /\ (scn.src = <<52, 53, 46, 54, 55>> /\ Len(toks) >= 4) =>
          /\ toks[1].tok = NUMBER /\ toks[1].lit = <<52, 53>>
          /\ toks[2].tok = Tok("PERIOD") /\ toks[2].lit = <<46>>
          /\ toks[3].tok = NUMBER /\ toks[3].lit = <<54, 55>>
          /\ toks[4].tok = EOF
    /\ (scn.src = <<53, 99, 109>> /\ Len(toks) >= 3) =>
          /\ toks[1].tok = NUMBER /\ toks[1].lit = <<53>>
          /\ toks[2].tok = WORD /\ toks[2].lit = <<99, 109>>
          /\ toks[3].tok = EOF

C24_NumberStep ==
    (Len(toks') = Len(toks) + 1 /\ 48 <= AfterBlanks.ch /\ AfterBlanks.ch <= 57) =>
        LET p == ChOffset(AfterBlanks)
            e == DigitRunEnd(p)
            t == toks'[Len(toks')]
        IN  /\ t.tok = NUMBER
            /\ t.lit = Slice(scn.src, p, e)
            /\ scn'.offset = e
            /\ scn'.ch = (IF e >= Len(scn.src) THEN eof
                          ELSE IF ByteAt(e) < RuneSelf THEN ByteAt(e)
                          ELSE RuneError)

C24_Number == [](C24_Examples) /\ [][C24_NumberStep]_vars

\* 45.67 was scanned to its end
C24_Witness ==
    /\ scn.src = <<52, 53, 46, 54, 55>>
    /\ Len(toks) = 4
    /\ toks[1].lit = <<52, 53>> /\ toks[3].lit = <<54, 55>>
    /\ toks[4].tok = EOF

-----------------------------------------------------------------------------
(* C25: the symbol table is a bijection between the registered symbol characters
   and the symbol token tags: IsSymbol(ch) holds iff LookupSymbol(ch) # ILLEGAL,
   distinct symbol characters map to distinct tags, and the String() of the tag
   is the character itself; and every registered symbol character met at the
   start of a token, other than % and the backslash, is returned by Scan as that
   tag with the one-character literal. *)

\* the symbol characters: { } [ ] . : , ; = < > \ / * ! & $ % # ^ - _ ~ | @
SymbolChars ==
    {123, 125, 91, 93, 46, 58, 44, 59, 61, 60, 62, 92, 47, 42, 33, 38, 36, 37, 35, 94,
     45, 95, 126, 124, 64}

\* the runes the table is asked about: ASCII, eof, U+00E9, U+FEFF and U+FFFD
SomeRunes == 0..127 \cup {eof, 233, bom, RuneError}

SymbolsExample == <<123, 125, 91, 93, 46, 58, 44, 59, 61, 60, 62, 47, 42, 33, 38, 36, 35, 94, 45, 95, 126, 124, 64>>

C25_Table ==
    /\ \A ch \in SomeRunes :
          /\ IsSymbol(ch) <=> ch \in SymbolChars
          /\ IsSymbol(ch) <=> LookupSymbol(ch) # ILLEGAL
          /\ IsSymbol(ch) =>
                /\ LookupSymbol(ch) \in SymbolToks
                /\ TokenString(LookupSymbol(ch)) = <<ch>>
    /\ \A c1, c2 \in SymbolChars : LookupSymbol(c1) = LookupSymbol(c2) => c1 = c2
    /\ \A k \in SymbolToks : \E ch \in SymbolChars : LookupSymbol(ch) = k

C25_SymbolStep ==
    (Len(toks') = Len(toks) + 1 /\ AfterBlanks.ch \in SymbolChars \ {37, 92}) =>
        LET ch == AfterBlanks.ch
            t  == toks'[Len(toks')]
        IN  /\ t.tok \in SymbolToks
            /\ TokenString(t.tok) = <<ch>>
            /\ t.lit = <<ch>>
            /\ scn'.offset = (IF scn'.ch = eof THEN Len(scn.src) ELSE AfterBlanks.rdOffset)

C25_SymbolBijection == [](C25_Table) /\ [][C25_SymbolStep]_vars

\* the source of every symbol but % and the backslash was scanned: one token each
C25_Witness ==
    /\ scn.src = SymbolsExample
    /\ Len(toks) = Len(SymbolsExample) + 1
    /\ \A i \in 1..Len(SymbolsExample) :
          toks[i].lit = <<SymbolsExample[i]>> /\ toks[i].tok = symbols_beg + i + (IF i >= 12 THEN 1 ELSE 0) + (IF i >= 17 THEN 1 ELSE 0)
    /\ toks[Len(toks)].tok = EOF

-----------------------------------------------------------------------------
(* C26: when Scan meets a rune that is no letter, digit, space, tab, newline,
   backslash, %% or registered symbol, it returns ILLEGAL with that rune as the
   literal, invokes the error handler with a diagnostic that names the offending
   codepoint, resolved at the offending rune's own position, consumes exactly
   that rune, and the next Scan resumes at the following rune. *)

\* an ASCII rune Scan has no branch for
Unrecognized(ch) ==
    /\ 0 < ch /\ ch < RuneSelf
    /\ ~isLetter(ch) /\ ~isDigit(ch)
    /\ ch \notin {32, 9, 10, 92, 37}
    /\ ch \notin SymbolChars

C26_IllegalStep ==
    (Len(toks') = Len(toks) + 1 /\ Unrecognized(AfterBlanks.ch)) =>
        LET p  == ChOffset(AfterBlanks)
            ch == AfterBlanks.ch
            t  == toks'[Len(toks')]
        IN  /\ t.tok = ILLEGAL
            /\ t.lit = <<ch>>
            /\ scn'.offset = p + 1
            /\ scn'.ch = RuneAt(p + 1) \/ RuneAt(p + 1) >= RuneSelf
            /\ scn.handler =>
                  /\ Len(errs') > Len(errs)
                  /\ errs'[Len(errs')].msg = <<"illegal character %%#U", ch>>
                  /\ errs'[Len(errs')].pos = RefPosition(ScanFile, p)

C26_IllegalRune == [][C26_IllegalStep]_vars

-----------------------------------------------------------------------------
(* C27: lexical errors never abort scanning and the error handler has no
   influence on the result: for every source (illegal runes, NUL bytes and
   invalid UTF-8 included) scanning with a nil handler and scanning with a
   handler give the same (Pos, token, literal) triples up to EOF and the same
   final line table. *)

\* the scanner of the state with the other choice of handler
OtherHandler == [Machine EXCEPT !.handler = ~@]

\* Init with the other choice of handler leaves the same scanner and File
C27_InitSame ==
    toks = <<>> =>
        \E m \in {ScannerInit([ScanFile EXCEPT !.lines = <<0>>], scn.src, ~scn.handler)} :
            /\ ScannerOf(m) = [scn EXCEPT !.handler = ~@]
            /\ m.file = ScanFile

\* a Scan with the other choice of handler returns the same and leaves the same
C27_SameStep ==
    Len(toks') = Len(toks) + 1 =>
        \E r \in {Scan(OtherHandler)} :
            /\ toks'[Len(toks')] = [pos |-> r.pos, tok |-> r.tok, lit |-> r.lit]
            /\ ScannerOf(r.m) = [scn' EXCEPT !.handler = ~@]
            /\ r.m.file = fset'.files[1]

\* without a handler nothing is reported
C27_Silent == ~scn.handler => errs = <<>>

C27_HandlerHasNoInfluence ==
    [](C27_InitSame) /\ [](C27_Silent) /\ [][C27_SameStep]_vars

\* "a", NUL, "(" was scanned to EOF with a handler that was called three times
C27_Witness ==
    /\ scn.src = <<97, 0, 40>> /\ scn.handler
    /\ Len(toks) = 4
    /\ toks[2].tok = ILLEGAL /\ toks[3].tok = ILLEGAL /\ toks[4].tok = EOF
    /\ Len(errs) = 3

-----------------------------------------------------------------------------
(* C28: Walk(v, node) is a depth-first pre-order traversal: it does nothing for
   a nil node; otherwise it calls Visit on the node before any of its
   descendants, and if Visit returns a non-nil visitor w it walks the children
   of the node (File.Body for a File, TextBlock.Content for a TextBlock, none
   for any other variant) in sequence order using w; if Visit returns nil no
   descendant of the node is visited.  With a visitor that never returns nil,
   Visit is invoked exactly once per node of the tree. *)

\* the children of a node as the claim names them
RefChildren(n) ==
    CASE n.kind = "File" -> n.Body
      [] n.kind = "TextBlock" -> n.Content
      [] OTHER -> <<>>

\* the entry a path leads to
RECURSIVE RefNodeAt(_, _)
RefNodeAt(n, path) ==
    IF path = <<>> THEN n ELSE RefNodeAt(RefChildren(n)[Head(path)], Tail(path))

\* the paths to the entries of the tree below and including n
RECURSIVE PathsOf(_)
PathsOf(n) ==
    {<<>>} \cup UNION {{<<i>> \o q : q \in PathsOf(RefChildren(n)[i])} :
                         i \in 1..Len(RefChildren(n))}

\* the paths to the nodes of the tree
NodePaths == {q \in PathsOf(wlk.root) : RefNodeAt(wlk.root, q) # NilNode}

Parent(q) == SubSeq(q, 1, Len(q) - 1)

\* q comes before r in pre-order: an ancestor before its descendants, an earlier
\* child and all below it before a later child
PreLess(q, r) ==
    /\ q # r
    /\ \/ Len(q) < Len(r) /\ SubSeq(r, 1, Len(q)) = q
       \/ \E k \in 1..Len(q) :
             /\ k <= Len(r)
             /\ SubSeq(q, 1, k - 1) = SubSeq(r, 1, k - 1)
             /\ q[k] < r[k]

WalkDone == wlk.stack = <<>>

C28_PreOrder ==
    LET V == wlk.visits
    IN  /\ \A i \in 1..Len(V) :
              /\ V[i].path \in NodePaths
              /\ V[i].node = RefNodeAt(wlk.root, V[i].path)
              /\ IF V[i].path = <<>>
                 THEN V[i].v = 1
                 ELSE \E j \in 1..(i - 1) :
                          /\ V[j].path = Parent(V[i].path)
                          /\ V[j].ret # NilVisitor
                          /\ V[j].ret = V[i].v
        /\ \A i, j \in 1..Len(V) : i < j => PreLess(V[i].path, V[j].path)
        /\ WalkDone =>
              /\ \A q \in NodePaths :
                    (\E i \in 1..Len(V) : V[i].path = q) <=>
                        (q = <<>> \/ \E j \in 1..Len(V) :
                                        V[j].path = Parent(q) /\ V[j].ret # NilVisitor)
              /\ (\A i \in 1..Len(V) : V[i].ret # NilVisitor) =>
                    /\ Len(V) = Cardinality(NodePaths)
                    /\ {V[i].path : i \in 1..Len(V)} = NodePaths

\* a File with an import, a TextBlock of one word and a comment was walked to
\* the end by visitors that never returned nil and handed over to another one
C28_Witness ==
    /\ WalkDone
    /\ wlk.root.kind = "File"
    /\ wlk.root.Imports # <<>>
    /\ Len(wlk.root.Body) = 2
    /\ wlk.root.Body[1].kind = "TextBlock"
    /\ Len(wlk.root.Body[1].Content) = 1
    /\ Len(wlk.visits) = 4
    /\ \A i \in 1..4 : wlk.visits[i].ret # NilVisitor
    /\ wlk.visits[1].ret = 2
    /\ wlk.visits[2].ret = 1

-----------------------------------------------------------------------------
(* Reference definitions for the parser's claims *)

\* the triples Scan returns for the scanner m up to and including EOF
RECURSIVE ScanAll(_, _)
ScanAll(m, acc) ==
    Then(Scan(m),
         LAMBDA r : IF r.tok = EOF
                    THEN Append(acc, [pos |-> r.pos, tok |-> r.tok, lit |-> r.lit])
                    ELSE ScanAll(r.m, Append(acc, [pos |-> r.pos, tok |-> r.tok, lit |-> r.lit])))

\* the tokens of the source the parser was given
SourceTokens ==
    ScanAll(ScannerInit([ScanFile EXCEPT !.lines = <<0>>], scn.src, FALSE), <<>>)

\* the tag of the i-th token of T, ILLEGAL past its end
TagAt(T, i) == IF i <= Len(T) THEN T[i].tok ELSE ILLEGAL

IsName(tag) == tag = WORD \/ tag = COMMAND

\* the number of tokens between the braces of the well-formed import that starts
\* at the i-th token of T: \import { } or \import { name } or \import { name number };
\* -1 if none starts there
NameTokens(T, i) ==
    IF TagAt(T, i) # Tok("IMPORT") \/ TagAt(T, i + 1) # Tok("LBRACE") THEN -1
    ELSE IF TagAt(T, i + 2) = Tok("RBRACE") THEN 0
    ELSE IF IsName(TagAt(T, i + 2)) /\ TagAt(T, i + 3) = Tok("RBRACE") THEN 1
    ELSE IF IsName(TagAt(T, i + 2)) /\ TagAt(T, i + 3) = NUMBER
            /\ TagAt(T, i + 4) = Tok("RBRACE") THEN 2
    ELSE -1

WellFormedAt(T, i) == NameTokens(T, i) >= 0

\* the ImportSpec of the well-formed import that starts at the i-th token of T
RefSpecAt(T, i) ==
    LET n == NameTokens(T, i)
    IN  [Token |-> Tok("IMPORT"),
         Name |-> IF n = 0 THEN <<>> ELSE IF n = 1 THEN T[i + 2].lit
                  ELSE T[i + 2].lit \o T[i + 3].lit,
         Path |-> <<>>,
         Pos_ |-> T[i].pos,
         End_ |-> T[i + 2 + n].pos + 1]

\* the ImportSpecs of the well-formed imports of T, in source order
RefImports(T) ==
    LET W == {i \in 1..Len(T) : WellFormedAt(T, i)}
        Nth(k) == CHOOSE i \in W : Cardinality({j \in W : j < i}) = k - 1
    IN  [k \in 1..Cardinality(W) |-> RefSpecAt(T, Nth(k))]

\* Parse in imports-only mode has returned
ImportsDone == prs.result.done /\ prs.mode % 2 = 1

-----------------------------------------------------------------------------
(* C29: in imports-only mode Parse returns a File whose Imports holds exactly one
   ImportSpec per well-formed \import{name} of the source, in source order, with
   Token = IMPORT, Name = the name between the braces, Pos = the position of the
   \import token and End = the position of the closing brace + 1; the File
   spans from the base of the file to the EOF position and no error is
   returned. *)
C29_ImportsCollected ==
    ImportsDone =>
        \E T \in {SourceTokens} :
            LET F == prs.result.file
            IN  /\ prs.result.err = ""
                /\ F.Pos_ = ScanFile.base
                /\ F.End_ = T[Len(T)].pos
                /\ F.End_ = ScanFile.base + Len(scn.src)
                /\ F.Imports = RefImports(T)
                /\ \A k \in 1..Len(F.Imports) :
                      /\ Slice(scn.src, F.Imports[k].Pos_ - ScanFile.base,
                               F.Imports[k].Pos_ - ScanFile.base + 7) = <<92>> \o ImportName
                      /\ ByteAt(F.Imports[k].End_ - 1 - ScanFile.base) = 125

-----------------------------------------------------------------------------
(* C30: in imports-only mode a malformed \import (no opening brace after it, or
   no closing brace after the name) yields no ImportSpec, and token consumption
   resumes so that every later well-formed \import of the same source is still
   collected, also one that starts at the very token where the malformed one
   was abandoned. *)
C30_Recovery ==
    ImportsDone =>
        \E T \in {SourceTokens} :
            LET I == prs.result.file.Imports
            IN  /\ \A i \in 1..Len(T) :
                      (T[i].tok = Tok("IMPORT") /\ ~WellFormedAt(T, i)) =>
                          /\ \A k \in 1..Len(I) : I[k].Pos_ # T[i].pos
                          /\ \A j \in (i + 1)..Len(T) :
                                WellFormedAt(T, j) =>
                                    \E k \in 1..Len(I) :
                                        /\ I[k].Pos_ = T[j].pos
                                        /\ I[k].Name = RefSpecAt(T, j).Name
                /\ Len(I) = Cardinality({i \in 1..Len(T) : WellFormedAt(T, i)})

\* \import{\import{a} was parsed: the first import was given up at the second,
\* which was collected
C30_Witness ==
    /\ ImportsDone
    /\ scn.src = <<92>> \o ImportName \o <<123, 92>> \o ImportName \o <<123, 97, 125>>
    /\ Len(prs.result.file.Imports) = 1
    /\ prs.result.file.Imports[1].Name = <<97>>
    /\ prs.result.file.Imports[1].Pos_ = ScanFile.base + 8
    /\ prs.result.file.Imports[1].End_ = ScanFile.base + 18

-----------------------------------------------------------------------------
(* C33: for every coordinate pos in [base, base+size) of a File, File.Position(pos)
   is what FileSet.Position(pos) is; File.Position is the zero Position-Info for
   NoPos and for every pos outside [base, base+size), base+size included;
   FileSet.Position is the zero Position-Info for NoPos and for every coordinate
   FileSet.File does not resolve. *)
C33_FilePositionAgrees ==
    /\ last.op = "FilePosition" =>
          LET f == Files[last.arg[1]]
              p == last.arg[2]
          IN  IF p # NoPos /\ f.base <= p /\ p < f.base + f.size
              THEN last.ret = FileSetPosition(fset, p)
              ELSE last.ret = ZeroPosition
    /\ last.op = "Position" =>
          LET p == last.arg[1]
          IN  /\ (p = NoPos \/ FileSetFile(fset, p) = NilFile) => last.ret = ZeroPosition
              /\ \A h \in 1..Len(Files) :
                    (Files[h].base <= p /\ p < Files[h].base + Files[h].size)
                        => /\ last.ret # ZeroPosition
                           /\ last.ret.Filename = Files[h].name
                           /\ last.ret.Offset = p - Files[h].base

\* File.Position was called on the second of two Files with a coordinate inside
\* its range
C33_Witness ==
    /\ last.op = "FilePosition"
    /\ Len(Files) >= 2
    /\ last.arg[1] = 2
    /\ Files[2].base < last.arg[2]
    /\ last.arg[2] < Files[2].base + Files[2].size
    /\ last.ret = FileSetPosition(fset, last.arg[2])
    /\ last.ret.Offset > 0

-----------------------------------------------------------------------------
(* C34: a WORD starts at a letter and its run goes on only while letters or
   backslash-escaped symbols are found: the first character that is neither, a
   decimal digit in particular (as in chapter1), ends the WORD, and the literal
   of the WORD holds letters and spliced symbol characters only. *)

\* the run of letters and escaped symbols that starts at offset p: [lit, end],
\* read off the source bytes
RECURSIVE LetterRun(_, _)
LetterRun(p, lit) ==
    IF isLetter(ByteAt(p))
    THEN LetterRun(p + 1, lit \o <<ByteAt(p)>>)
    ELSE IF ByteAt(p) = 92 /\ IsSymbol(ByteAt(p + 1))
    THEN LetterRun(p + 2, lit \o <<ByteAt(p + 1)>>)
    ELSE [lit |-> lit, end |-> p]

C34_WordStep ==
    (Len(toks') = Len(toks) + 1 /\ isLetter(AfterBlanks.ch)) =>
        LET p == ChOffset(AfterBlanks)
            w == LetterRun(p, <<>>)
            t == toks'[Len(toks')]
        IN  /\ t.tok = WORD
            /\ t.pos = ScanFile.base + p
            /\ \A i \in 1..Len(t.lit) : isLetter(t.lit[i]) \/ IsSymbol(t.lit[i])
            /\ t.lit = w.lit
            /\ scn'.offset = w.end

C34_WordIsLettersOnly == [][C34_WordStep]_vars

-----------------------------------------------------------------------------
(* C35: when inside a word a backslash is followed by a character that is no
   registered symbol, the word ends before the backslash and the cursor is
   rewound by that one escape sequence: offset, read offset and current rune are
   what they were when the backslash was reached, the line table of the File is
   what it was before the speculative read, and the next Scan returns the (Pos,
   token, literal) it would return had scanning started at that backslash. *)

\* a scanner that starts reading at the one-byte rune at offset o, on the File
\* as it is before the step
StartedAt(o) ==
    [src |-> scn.src, handler |-> scn.handler, offset |-> o, rdOffset |-> o + 1,
     ch |-> ByteAt(o), file |-> fset.files[1], errs |-> errs]

\* the scanner after the step
MachineAfter ==
    [src |-> scn'.src, handler |-> scn'.handler, offset |-> scn'.offset,
     rdOffset |-> scn'.rdOffset, ch |-> scn'.ch, file |-> fset'.files[1], errs |-> errs']

\* what Scan returns
Triple(r) == <<r.pos, r.tok, r.lit>>

\* the word that starts at the letter Scan looks at ends at a backslash that
\* escapes nothing
WordEndsAtBackslash ==
    /\ isLetter(AfterBlanks.ch)
    /\ \E w \in {RefWord(ChOffset(AfterBlanks), <<>>)} :
          ByteAt(w.end) = 92 /\ w.end + 1 <= Len(scn.src) /\ ~IsSymbol(ByteAt(w.end + 1))

\* the rewind of the cursor and the tokens, without the line table
C35_CursorRewound ==
    (Len(toks') = Len(toks) + 1 /\ WordEndsAtBackslash) =>
        LET p == ChOffset(AfterBlanks)
            w == RefWord(p, <<>>)
            t == toks'[Len(toks')]
        IN  /\ t = [pos |-> ScanFile.base + p, tok |-> WORD, lit |-> w.lit]
            /\ scn'.offset = w.end
            /\ scn'.rdOffset = w.end + 1
            /\ scn'.ch = 92
            /\ Triple(Scan(MachineAfter)) = Triple(Scan(StartedAt(w.end)))

C35_RewindStep ==
    /\ C35_CursorRewound
    /\ (Len(toks') = Len(toks) + 1 /\ WordEndsAtBackslash) =>
           fset'.files[1].lines = fset.files[1].lines

C35_Rewind == [][C35_RewindStep]_vars

-----------------------------------------------------------------------------
(* C36: at every point of scanning any source, every entry of the File's line
   table other than entry 0 is an offset k+1 with src[k] = '\n': no line start is
   registered at an offset that does not directly follow a line terminator, also
   not while backtracking inside a word or after the backslash-symbol path. *)
C36_LineStartsFollowNewlines ==
    \A i \in 2..Len(ScanFile.lines) : ByteAt(ScanFile.lines[i] - 1) = 10

-----------------------------------------------------------------------------
(* C37: an AddFile that fails fatally leaves the FileSet as it was: Base() and the
   file list are unchanged, no File is registered, and the lock of the FileSet is
   released, so that a later AddFile, File or Position call on the same FileSet,
   from the thread that recovered the failure or from another one, goes on and
   never blocks forever. *)

\* thread t is in an AddFile whose checks fail or have failed
FailingAddFile(t) ==
    \/ At(t, "A_check") /\ AddFile(fset, thr[t].a[1], thr[t].a[2], thr[t].a[3]).panicked
    \/ At(t, "A_panic")

\* the places where a call waits for the lock of the FileSet
LockWaits == {"A_lock", "A_wait", "B_rlock", "S_rlock"}

\* the steps of a failing AddFile change neither the cursor nor the file list, and
\* its last step releases the lock
C37_FailStep ==
    \A t \in Threads :
        (FailingAddFile(t) /\ thr'[t] # thr[t]) =>
            /\ fset' = fset
            /\ FileSetBase(fset') = FileSetBase(fset)
            /\ Files' = Files
            /\ thr'[t].pc \in {"A_panic", "idle"}
            /\ thr'[t].pc = "idle" => smu'.writer = 0

\* the lock is held by a thread inside AddFile only
C37_LockHeldInsideCall ==
    /\ smu.writer # 0 => HoldsLock(smu.writer)
    /\ \A t \in Threads : HoldsLock(t) => smu.writer = t

\* the failed call is left, and a call that waits for the lock while another one
\* fails gets on
C37_Proceeds ==
    \A t \in Threads :
        /\ At(t, "A_panic") ~> At(t, "idle")
        /\ (thr[t].pc \in LockWaits /\ \E u \in Threads : At(u, "A_panic"))
              ~> thr[t].pc \notin LockWaits

C37_FailedAddFileChangesNothing ==
    [](C37_LockHeldInsideCall) /\ [][C37_FailStep]_vars /\ C37_Proceeds

\* an AddFile failed on a set that holds a File while the other thread waits for
\* the lock with a lookup
C37_Witness ==
    /\ Len(Files) >= 1
    /\ \E t, u \in Threads :
          /\ t # u
          /\ At(t, "A_panic")
          /\ smu.writer = t
          /\ At(u, "S_rlock")

-----------------------------------------------------------------------------
(* The File a finished Parse in full mode returned *)

FullDone == prs.result.done /\ prs.mode = ParseFull

FullBody == prs.result.file.Body

\* the byte of the source at the position p, 0 outside the source
SrcAt(p) == ByteAt(p - ScanFile.base)

-----------------------------------------------------------------------------
(* C31 *)

\* C31: in the File of a full parse a blank line ends the paragraph: in no
\* TextBlock is the Newline child after a Word followed by another Newline child,
\* and a TextBlock that ends with a Newline just before a second newline is
\* followed in the Body by a Newline node at that second newline.
C31_BlankLineEndsParagraph ==
    FullDone =>
        \A k \in 1..Len(FullBody) :
            FullBody[k].kind = "TextBlock" =>
                LET c == FullBody[k].Content
                IN  /\ \A i \in 2..(Len(c) - 1) :
                           (c[i - 1].kind = "Word" /\ c[i].kind = "Newline") =>
                               c[i + 1].kind # "Newline"
                    /\ (c # <<>> /\ c[Len(c)].kind = "Newline"
                            /\ SrcAt(FullBody[k].End_) = 10) =>
                           /\ k < Len(FullBody)
                           /\ FullBody[k + 1].kind = "Newline"
                           /\ FullBody[k + 1].Pos_ = FullBody[k].End_

-----------------------------------------------------------------------------
(* C32 *)

\* the first position from p on that holds no blank
RECURSIVE SkipBlanks(_)
SkipBlanks(p) == IF isSpaceChar(SrcAt(p)) THEN SkipBlanks(p + 1) ELSE p

\* C32: in the File of a full parse, a Word that is followed by blanks and two
\* backslashes is the last but one child of its TextBlock and the last child is
\* the LineBreak with Kind "newline" at the backslashes.
C32_DoubleBackslashIsLineBreak ==
    FullDone =>
        \A k \in 1..Len(FullBody) :
            FullBody[k].kind = "TextBlock" =>
                LET c == FullBody[k].Content
                IN  \A i \in 1..Len(c) :
                        (/\ c[i].kind = "Word"
                         /\ SrcAt(c[i].End_) = 32
                         /\ SrcAt(SkipBlanks(c[i].End_)) = 92
                         /\ SrcAt(SkipBlanks(c[i].End_) + 1) = 92) =>
                            /\ i = Len(c) - 1
                            /\ c[i + 1].kind = "LineBreak"
                            /\ c[i + 1].Kind = NewlineName
                            /\ c[i + 1].Pos_ = SkipBlanks(c[i].End_)

-----------------------------------------------------------------------------
(* C38 *)

\* Parse has returned a File
ParseReturned == prs.result.done /\ prs.result.err = ""

\* the position just after the token that starts at the position p: where the
\* scanner stands after the Scan that starts there
TokenEnd(p) == ScanFile.base + Scan(StartedAt(p - ScanFile.base)).m.offset

\* the nodes ns, children of a node from pos to end: each one has Pos <= End and
\* lies inside its parent, and each one starts after the one before it has ended
RangesNested(ns, pos, end) ==
    /\ \A i \in 1..Len(ns) :
           ns[i].Pos_ <= ns[i].End_ /\ pos <= ns[i].Pos_ /\ ns[i].End_ <= end
    /\ \A i \in 1..(Len(ns) - 1) :
           ns[i].Pos_ < ns[i + 1].Pos_ /\ ns[i].End_ <= ns[i + 1].Pos_

\* the leaves among the nodes ns end just after their last source byte
LeavesEndAfterToken(ns) ==
    \A i \in 1..Len(ns) :
        ns[i].kind # "TextBlock" => ns[i].End_ = TokenEnd(ns[i].Pos_)

\* C38: in the File Parse returns every node has Pos <= End, every leaf ends just
\* after its last source byte (an ImportSpec just after its closing brace), every
\* child lies inside its parent, and the children of the File and of a TextBlock
\* come in strictly increasing Pos order without overlapping.
C38_NodeRanges ==
    ParseReturned =>
        LET f == prs.result.file
        IN  /\ f.Pos_ <= f.End_
            /\ RangesNested(f.Imports, f.Pos_, f.End_)
            /\ \A i \in 1..Len(f.Imports) : SrcAt(f.Imports[i].End_ - 1) = 125
            /\ RangesNested(f.Body, f.Pos_, f.End_)
            /\ LeavesEndAfterToken(f.Body)
            /\ \A k \in 1..Len(f.Body) :
                   f.Body[k].kind = "TextBlock" =>
                       /\ RangesNested(f.Body[k].Content, f.Body[k].Pos_, f.Body[k].End_)
                       /\ LeavesEndAfterToken(f.Body[k].Content)

-----------------------------------------------------------------------------
(* C39 *)

\* how far the parser has read: the read cursor of its scanner, and one more
\* once the token it looks at is EOF
ParseCursor == ReadCursor(scn) + (IF prs.tok = EOF THEN 1 ELSE 0)

\* a turn of a loop of the parser consumes a token; the steps that consume none
\* are the return of Parse, the call of parseText at a token parseText consumes,
\* and the return of parseText after it has consumed a token
C39_TurnStep ==
    ~prs.result.done =>
        \/ ParseCursor' > ParseCursor
        \/ prs'.result.done
        \/ /\ prs.text = <<>> /\ prs'.text # <<>>
           /\ prs.tok # EOF /\ IsTextToken(Parser)
           /\ prs'.tok = prs.tok /\ prs'.lit = prs.lit
        \/ /\ prs.text # <<>> /\ prs'.text = <<>>
           /\ prs.text[1].content # <<>>

\* what Parse returns: an error and no File exactly for a mode with neither bit,
\* else a File, returned at EOF; with the ImportsOnly bit it is the File of
\* parseImportsOnly and parseFull has not run
C39_Result ==
    prs.result.done =>
        /\ prs.result.err # "" <=> (prs.mode % 2 = 0 /\ (prs.mode \div 2) % 2 = 0)
        /\ prs.result.err # "" => prs.result.file = <<>>
        /\ prs.result.err = "" => prs.tok = EOF /\ prs.result.file # <<>>
        /\ prs.mode % 2 = 1 =>
               /\ prs.result.file.Imports = prs.imports
               /\ prs.result.file.Body = <<>>
               /\ prs.result.file.Pos_ = ScanFile.base
               /\ prs.body = <<>> /\ prs.text = <<>>

\* C39: Parse returns for every source in every mode, every turn of the loops of
\* parseFull, parseText and parseImportsOnly reads on in the source, an error and
\* no File is returned exactly when the mode has neither bit, and with both bits
\* the File is the one of parseImportsOnly.
C39_ParseTerminates ==
    /\ <>(prs.result.done)
    /\ [][C39_TurnStep]_vars
    /\ [](C39_Result)

\* Parse has returned the File of a full parse with a comment and a TextBlock of
\* two nodes or more
C39_Witness ==
    /\ FullDone
    /\ \E k \in 1..Len(FullBody) : FullBody[k].kind = "Comment"
    /\ \E k \in 1..Len(FullBody) :
           FullBody[k].kind = "TextBlock" /\ Len(FullBody[k].Content) >= 2

====
